---- MODULE Spec2Model ----
(***************************************************************************)
(* Publish-and-reconcile pipeline of adma_geo/filemanager: the File rows,  *)
(* the Celery tasks that process and publish them, the GeoServer side the  *)
(* tasks talk to, and the Map / MapLayer rows built on published files.    *)
(*                                                                         *)
(* Strings the code slices, filters or compares by prefix are sequences of *)
(* one-character strings, so that the Python string operations are         *)
(* computed and not assumed.                                               *)
(***************************************************************************)
EXTENDS Integers, Sequences, FiniteSets, Bags, TLC

(***************************************************************************)
(* Bounds of the model.                                                    *)
(***************************************************************************)
\* how many task executions may be in progress at once (worker concurrency)
MaxRunning == 2
\* how many map requests may be in progress at once (web server threads)
MaxInflight == 2
\* how many times the fix_shapefile_wms command resets one file
MaxResets == 1
\* highest auto-number the GeoServer side appends on a name collision
MaxSuffix == 1
\* highest MapLayer.layer_order a request may produce
MaxLayerOrder == 2
\* longest processing log of a file the migrate and synchronise commands
\* are still run on
MaxLogLen == 7

(***************************************************************************)
(* Program constants.                                                      *)
(***************************************************************************)
\* tasks.py:127  delayed_shapefile_publish_task(self, file_id, max_retries=5)
max_retries == 5
\* geoserver_manager.py:53  layer_name[:60]
MaxLayerNameLen == 60
\* geoserver_manager.py:86  name[:20]
MaxCleanLen == 20
\* geoserver_manager.py:44  str(file_obj.id).replace('-', '')[:8]
IdShortLen == 8
\* geoserver_manager.py:74  hexdigest()[:6]
HashLen == 6
\* geoserver_manager.py:301  for i in range(1, 10)
VerifyRangeEnd == 10

NULL == <<"None">>
\* a map without a layer group on the GeoServer side
NoGroup == [published |-> <<NULL>>, style |-> <<>>]

(***************************************************************************)
(* State.                                                                  *)
(***************************************************************************)
VARIABLES
    allSpatialExtensions, \* settings.ALL_SPATIAL_EXTENSIONS as File.save reads it
    files,                \* the File table: a row, NotUploaded or Deleted per id
    queue,                \* Celery broker: bag of [kind, f, retries]
    running,              \* task executions in progress: bag of execution records
    extWorkspace,         \* GeoServer: the workspace exists
    extStores,            \* GeoServer: names of data stores / coverage stores
    extLayers,            \* GeoServer: names of layers
    maps,                 \* the Map table: ids of the rows
    mapLayers,            \* the MapLayer table: set of [map, file, layer_order]
    layerGroups,          \* GeoServer: layer group of each map, NoGroup when absent
    resets,               \* how often fix_shapefile_wms has reset each file
    verified,             \* history: layer names _test_layer_exists confirmed, per file
    generated,            \* history: the calls of generate_systematic_layer_name, per file:
                          \* [resets before the call, made by a retried task, made for
                          \*  a file that is published already, made for a file whose
                          \*  row is gone, name returned]
    archives,             \* history: File rows zipped into the last accepted upload, per file
    transportFailures,    \* history: failed GeoServer upload calls, per file
    notComposed,          \* history: maps with a MapLayer change whose request ended
                          \* without a call of update_layer_group
    inflight,             \* map requests between their steps: set of request records
    mapGeometry,          \* the Map table: [center, zoom_level, bbox] of each row
    centerCalls,          \* history: the last calculate_and_update_center of each map,
                          \* [members queried, members whose extent resolved]
    groupDeletes,         \* history: the calls of delete_layer_group the last delete of
                          \* each map made, in order
    wms_layers,           \* the layer names the WMS of GeoServer lists to the Reconciler
    reconciled            \* the answer of the Reconciler for wms_layers, NotReconciled before

vars == <<allSpatialExtensions, files, queue, running, extWorkspace, extStores,
          extLayers, maps, mapLayers, layerGroups, resets, verified, generated,
          archives, transportFailures, notComposed, inflight, mapGeometry,
          centerCalls, groupDeletes, wms_layers, reconciled>>

pipelineVars == <<files, queue, running, extWorkspace, extStores, extLayers,
                  resets, verified, generated, archives, transportFailures,
                  wms_layers, reconciled>>
mapVars == <<maps, mapLayers, layerGroups>>
geometryVars == <<mapGeometry, centerCalls, groupDeletes>>
requestVars == <<notComposed, inflight>>
reconcileVars == <<wms_layers, reconciled>>
historyVars == <<verified, generated, archives, transportFailures, reconcileVars>>
extVars == <<extWorkspace, extStores, extLayers>>

(***************************************************************************)
(* Python string helpers.                                                  *)
(***************************************************************************)
Letters == {"a", "b", "c", "d", "e", "f", "g", "h", "i", "j", "m", "o", "p",
            "r", "s", "t", "x"}
Digits == {"0", "1", "2", "3", "4", "5", "6", "7", "8", "9"}

\* str.isalnum() on one character
IsAlnum(c) == c \in Letters \cup Digits

\* s[:n]
Take(s, n) == IF Len(s) <= n THEN s ELSE SubSeq(s, 1, n)

\* s[n:]
Drop(s, n) == IF Len(s) <= n THEN <<>> ELSE SubSeq(s, n + 1, Len(s))

\* s.startswith(p)
StartsWith(s, p) == Len(p) <= Len(s) /\ SubSeq(s, 1, Len(p)) = p

\* s.endswith(p)
EndsWith(s, p) == Len(p) <= Len(s) /\ SubSeq(s, Len(s) - Len(p) + 1, Len(s)) = p

\* ''.join(c for c in s if keep(c)), keep = isalnum or '_'
RECURSIVE FilterName(_)
FilterName(s) ==
    IF s = <<>> THEN <<>>
    ELSE IF IsAlnum(Head(s)) \/ Head(s) = "_"
         THEN <<Head(s)>> \o FilterName(Tail(s))
         ELSE FilterName(Tail(s))

\* s.replace(old, ''), old non-empty, scanning left to right
RECURSIVE RemoveAll(_, _)
RemoveAll(s, old) ==
    IF s = <<>> THEN <<>>
    ELSE IF StartsWith(s, old) THEN RemoveAll(Drop(s, Len(old)), old)
         ELSE <<Head(s)>> \o RemoveAll(Tail(s), old)

\* positions of '.' in s
DotPositions(s) == {i \in 1..Len(s) : s[i] = "."}

\* s.split('.')[-1]
LastPart(s) ==
    IF DotPositions(s) = {} THEN s
    ELSE LET i == CHOOSE k \in DotPositions(s) : \A j \in DotPositions(s) : j <= k
         IN  Drop(s, i)

\* '.' + parts[-1].lower() when len(parts) >= 2, NULL otherwise.  The file
\* names of Catalogue are lower case, so lower() changes nothing here.
ExtOf(s) == IF DotPositions(s) = {} THEN NULL ELSE <<".">> \o LastPart(s)

\* pathlib.Path(name).stem: the name without its last suffix; a leading dot
\* or a trailing dot does not start a suffix
Stem(s) ==
    LET cand == {i \in DotPositions(s) : i > 1 /\ i < Len(s)}
    IN  IF cand = {} THEN s
        ELSE SubSeq(s, 1, (CHOOSE k \in cand : \A j \in cand : j <= k) - 1)

\* pathlib.Path(name).suffix.lower()
Suffix(s) == Drop(s, Len(Stem(s)))

shp == <<".", "s", "h", "p">>
shx == <<".", "s", "h", "x">>
dbf == <<".", "d", "b", "f">>
prj == <<".", "p", "r", "j">>
cpg == <<".", "c", "p", "g">>
qpj == <<".", "q", "p", "j">>
tif == <<".", "t", "i", "f">>
tiff == <<".", "t", "i", "f", "f">>
geotiff == <<".", "g", "e", "o", "t", "i", "f", "f">>
geotif == <<".", "g", "e", "o", "t", "i", "f">>

\* tasks.py:146, geoserver_manager.py:250  required_exts
required_exts == <<shp, shx, dbf>>
\* gis_utils.py:198-202  optional_files
optional_exts == <<prj, cpg, qpj>>
\* geoserver_manager.py:124  raster suffixes
RasterExts == {tif, tiff, geotiff, geotif}

\* [x for x in seq if keep], keeping the order of seq
RECURSIVE SelectNotIn(_, _)
SelectNotIn(seq, S) ==
    IF seq = <<>> THEN <<>>
    ELSE IF Head(seq) \in S THEN SelectNotIn(Tail(seq), S)
         ELSE <<Head(seq)>> \o SelectNotIn(Tail(seq), S)

Range(seq) == {seq[i] : i \in 1..Len(seq)}

(***************************************************************************)
(* The files and folders a user may upload: name, owner and folder of each *)
(* File row are fixed at creation (no view renames or moves a file).       *)
(***************************************************************************)
NoFolder == 0
\* a request that is not about one file
NoFile == 0
\* a request that is not about one map
NoMap == 0
Folders == {1, 2}
\* Folder rows: folder 1 is "county", folder 2 is "county/2024"
FolderName(d) == IF d = 1 THEN "county" ELSE "2024"
FolderParent(d) == IF d = 2 THEN 1 ELSE NoFolder

FileIds == 1..8
Catalogue(f) ==
    CASE f = 1 -> [name |-> <<"p", ".", "s", "h", "p">>, owner |-> 1, folder |-> 2,
                   id |-> <<"3", "f", "2", "a", "9", "c", "0", "1", "-", "7">>]
      [] f = 2 -> [name |-> <<"p", ".", "s", "h", "x">>, owner |-> 1, folder |-> 2,
                   id |-> <<"3", "f", "2", "a", "9", "c", "0", "2", "-", "7">>]
      [] f = 3 -> [name |-> <<"p", ".", "d", "b", "f">>, owner |-> 1, folder |-> 2,
                   id |-> <<"3", "f", "2", "a", "9", "c", "0", "3", "-", "7">>]
      [] f = 4 -> [name |-> <<"p", "_", "1", ".", "d", "b", "f">>, owner |-> 1, folder |-> 2,
                   id |-> <<"3", "f", "2", "a", "9", "c", "0", "4", "-", "7">>]
      [] f = 5 -> [name |-> <<"p", ".", "p", "r", "j">>, owner |-> 1, folder |-> 2,
                   id |-> <<"3", "f", "2", "a", "9", "c", "0", "5", "-", "7">>]
      [] f = 6 -> [name |-> <<"r", "-", "1", ".", "t", "i", "f">>, owner |-> 1, folder |-> NoFolder,
                   id |-> <<"3", "f", "2", "a", "9", "c", "0", "6", "-", "7">>]
      [] f = 7 -> [name |-> <<"p", ".", "d", "b", "f">>, owner |-> 1, folder |-> 1,
                   id |-> <<"3", "f", "2", "a", "9", "c", "0", "7", "-", "7">>]
      [] OTHER -> [name |-> <<"r", "-", "2", ".", "t", "i", "f">>, owner |-> 1, folder |-> 1,
                   id |-> <<"3", "f", "2", "a", "9", "c", "0", "8", "-", "7">>]

(***************************************************************************)
(* NameResolver: SystematicGeoServerManager.generate_systematic_layer_name *)
(***************************************************************************)
\* settings.GEOSERVER_WORKSPACE = 'adma_geo'
GEOSERVER_WORKSPACE == <<"a", "d", "m", "a", "_", "g", "e", "o">>

\* _get_folder_path: "root" without a folder, else the names from the root
\* folder down to the folder, joined by "/"
RECURSIVE FolderPath(_)
FolderPath(d) ==
    IF d = NoFolder THEN <<"root">>
    ELSE IF FolderParent(d) = NoFolder THEN <<FolderName(d)>>
         ELSE FolderPath(FolderParent(d)) \o <<"/", FolderName(d)>>

\* _hash_path: hashlib.md5(path.encode()).hexdigest()[:6], tabulated for the
\* paths of Folders
Md5Hex(path) ==
    CASE path = <<"root">> -> <<"6", "3", "a", "9", "f", "0", "e", "a">>
      [] path = <<"county">> -> <<"a", "a", "d", "0", "c", "d", "4", "2">>
      [] OTHER -> <<"6", "1", "e", "2", "7", "6", "6", "3">>
HashPath(path) == Take(Md5Hex(path), HashLen)

\* while '__' in name: name = name.replace('__', '_')
RECURSIVE CollapseUnderscores(_)
CollapseUnderscores(s) ==
    IF Len(s) < 2 THEN s
    ELSE IF s[1] = "_" /\ s[2] = "_" THEN CollapseUnderscores(Tail(s))
         ELSE <<Head(s)>> \o CollapseUnderscores(Tail(s))

\* _clean_filename
CleanFilename(filename) ==
    LET stem == Stem(filename)
        repl == [i \in 1..Len(stem) |-> IF IsAlnum(stem[i]) THEN stem[i] ELSE "_"]
    IN  Take(CollapseUnderscores(repl), MaxCleanLen)

\* str(user.id) for the owners of Catalogue
UserIdStr(u) == IF u = 1 THEN <<"1">> ELSE <<"2">>

\* a name generator that also reads how often the file was reset: the
\* variant of generate_systematic_layer_name that C10 has to tell apart
GenerateVersionedLayerName(f) ==
    LET c == Catalogue(f)
        folder_hash == HashPath(FolderPath(c.folder))
        filename_clean == CleanFilename(c.name)
        file_id_short == Take(RemoveAll(c.id, <<"-">>), IdShortLen)
        layer_name == GEOSERVER_WORKSPACE \o <<"_">> \o UserIdStr(c.owner) \o <<"_">>
                      \o folder_hash \o <<"_">> \o filename_clean \o <<"_">>
                      \o file_id_short
                      \o (IF resets[f] = 0 THEN <<>> ELSE <<"_", "r">>)
    IN  Take(FilterName(layer_name), MaxLayerNameLen)

\* generate_systematic_layer_name(file_obj): reads only the name, folder,
\* owner and id of the file and the workspace setting
GenerateSystematicLayerName(f) ==
    LET c == Catalogue(f)
        folder_hash == HashPath(FolderPath(c.folder))
        filename_clean == CleanFilename(c.name)
        file_id_short == Take(RemoveAll(c.id, <<"-">>), IdShortLen)
        layer_name == GEOSERVER_WORKSPACE \o <<"_">> \o UserIdStr(c.owner) \o <<"_">>
                      \o folder_hash \o <<"_">> \o filename_clean \o <<"_">>
                      \o file_id_short
    IN  Take(FilterName(layer_name), MaxLayerNameLen)

(***************************************************************************)
(* File rows and tasks.                                                    *)
(***************************************************************************)
\* what the File table holds for an id without a row
NotUploaded == [gis_status |-> "NotUploaded"]
Deleted == [gis_status |-> "Deleted"]
MapIds == {1}

\* settings.GIS_FILE_EXTENSIONS restricted to the suffixes of Catalogue: the
\* value a deployment gives ALL_SPATIAL_EXTENSIONS
SpatialExtensionsConfigured == {shp, tif}

Exists(f) == files[f] \notin {NotUploaded, Deleted}

\* one line of File.processing_log
Entry(tag, arg) == [tag |-> tag, arg |-> arg]

\* File.objects.create(...) defaults: gis_status 'pending', empty log, no
\* GeoServer names
NewRow ==
    [is_spatial |-> FALSE, gis_status |-> "pending", processing_log |-> <<>>,
     geoserver_layer_name |-> NULL, geoserver_datastore_name |-> NULL,
     geoserver_workspace |-> NULL]

\* File.save(): marks the file spatial by its suffix and fills the default
\* workspace of a spatial file; every field of the instance is written
SaveRow(f, obj) ==
    LET spatial == obj.is_spatial \/ Suffix(Catalogue(f).name) \in allSpatialExtensions
    IN  [obj EXCEPT !.is_spatial = spatial,
                    !.geoserver_workspace =
                        IF spatial /\ @ = NULL THEN GEOSERVER_WORKSPACE ELSE @]

Task(kind, f, retries) == [kind |-> kind, f |-> f, retries |-> retries]
One(x) == SetToBag({x})
RunningCount == BagCardinality(running)

\* no answer of the Reconciler yet
NotReconciled == [by |-> "nobody", name |-> NULL]

\* the center_* or the bbox_* columns of a Map row holding NULL
Unset == [unset |-> TRUE]

\* models.py lines 351-359: a Map row has no center and no bounding box
\* until calculate_and_update_center saves them, and zoom_level 10
NewGeometry == [center |-> Unset, zoom_level |-> 10, bbox |-> Unset]

\* no calculate_and_update_center has run for the map
NoCall == [made |-> FALSE, members |-> {}, resolved |-> {}]

\* the tables, the broker and the GeoServer side after installation
InitTables ==
    /\ allSpatialExtensions \in {{}, SpatialExtensionsConfigured}
    /\ files = [f \in FileIds |-> NotUploaded]
    /\ queue = EmptyBag
    /\ running = EmptyBag
    /\ extWorkspace = FALSE
    /\ extStores = {}
    /\ extLayers = {}
    /\ maps = {}
    /\ mapLayers = {}
    /\ layerGroups = [m \in MapIds |-> NoGroup]
    /\ resets = [f \in FileIds |-> 0]
    /\ verified = [f \in FileIds |-> {}]
    /\ generated = [f \in FileIds |-> {}]
    /\ archives = [f \in FileIds |-> {}]
    /\ transportFailures = [f \in FileIds |-> 0]
    /\ notComposed = {}
    /\ inflight = {}
    /\ reconciled = NotReconciled
    /\ mapGeometry = [m \in MapIds |-> NewGeometry]
    /\ centerCalls = [m \in MapIds |-> NoCall]
    /\ groupDeletes = [m \in MapIds |-> <<>>]

Init ==
    /\ InitTables
    /\ wms_layers = {}

(***************************************************************************)
(* views.upload_files: one uploaded file                                   *)
(***************************************************************************)
UploadFile(f) ==
    /\ files[f] = NotUploaded
    /\ LET row == SaveRow(f, NewRow)
       IN  /\ files' = [files EXCEPT ![f] = row]
           /\ queue' = IF row.is_spatial THEN queue (+) One(Task("process", f, 0))
                       ELSE queue
    /\ UNCHANGED <<allSpatialExtensions, geometryVars, requestVars, running, extVars, mapVars, resets, historyVars>>

(***************************************************************************)
(* tasks.process_gis_file_task                                             *)
(***************************************************************************)
\* gis_utils.process_gis_file: the suffixes it dispatches on
ProcessableExts == {<<".", "z", "i", "p">>, <<".", "g", "e", "o", "j", "s", "o", "n">>,
                    <<".", "g", "p", "k", "g">>, shp, tiff, tif, geotiff, geotif,
                    <<".", "c", "s", "v">>}

\* lines 19-24: get the row, no check of gis_status, mark it processing and
\* replace the log
ProcessStart(f) ==
    /\ BagIn(Task("process", f, 0), queue)
    /\ queue' = queue (-) One(Task("process", f, 0))
    /\ IF ~Exists(f)
       THEN UNCHANGED <<files, running>>
       ELSE /\ RunningCount < MaxRunning
            /\ LET obj == SaveRow(f, [files[f] EXCEPT
                              !.gis_status = "processing",
                              !.processing_log = <<Entry("starting", <<>>)>>])
               IN  /\ files' = [files EXCEPT ![f] = obj]
                   /\ running' = running (+) One([kind |-> "process", f |-> f,
                                     retries |-> 0, pc |-> "process", obj |-> obj,
                                     ok |-> FALSE, layer |-> NULL, store |-> NULL])
    /\ UNCHANGED <<allSpatialExtensions, geometryVars, requestVars, extVars, mapVars, resets, historyVars>>

\* lines 27-42: process_gis_file on the instance read at the start, then the
\* saves of the outcome
ProcessFinish(t) ==
    /\ BagIn(t, running)
    /\ t.kind = "process" /\ t.pc = "process"
    /\ running' = running (-) One(t)
    /\ IF Suffix(Catalogue(t.f).name) \in ProcessableExts
       THEN /\ files' = [files EXCEPT ![t.f] = SaveRow(t.f, [t.obj EXCEPT
                            !.gis_status = "processed",
                            !.processing_log = <<Entry("processed", <<>>),
                                                 Entry("completed", <<>>)>>])]
            /\ queue' = queue (+) One(Task("publish", t.f, 0))
       ELSE /\ files' = [files EXCEPT ![t.f] = SaveRow(t.f, [t.obj EXCEPT
                            !.gis_status = "error",
                            !.processing_log = @ \o <<Entry("processing_failed", <<>>)>>])]
            /\ UNCHANGED queue
    /\ UNCHANGED <<allSpatialExtensions, geometryVars, requestVars, extVars, mapVars, resets, historyVars>>

(***************************************************************************)
(* Bundler: the component query of delayed_shapefile_publish_task and of   *)
(* _publish_shapefile_with_temp_rename                                     *)
(***************************************************************************)
\* file_obj.name.replace('.shp', '')
BaseName(f) == RemoveAll(Catalogue(f).name, shp)

\* File.objects.filter(owner=file_obj.owner, name__startswith=base_name,
\*                     folder=file_obj.folder)
Components(f, table) ==
    {g \in FileIds :
        /\ table[g] \notin {NotUploaded, Deleted}
        /\ Catalogue(g).owner = Catalogue(f).owner
        /\ StartsWith(Catalogue(g).name, BaseName(f))
        /\ Catalogue(g).folder = Catalogue(f).folder}

\* available_exts / the keys of component_files
AvailableExts(f, table) ==
    {ExtOf(Catalogue(g).name) : g \in Components(f, table)} \ {NULL}

\* a check that asks for the .prj as well: the variant C24 has to tell apart
MissingComponentsWithPrj(f, table) ==
    SelectNotIn(required_exts \o <<prj>>, AvailableExts(f, table))

\* missing_components = [ext for ext in required_exts if ext not in available_exts]
MissingComponents(f, table) == SelectNotIn(required_exts, AvailableExts(f, table))

\* code points of the characters of Catalogue, for the ordering of File rows
\* (Meta.ordering = ['name'])
CharRank(c) ==
    CASE c = "-" -> 45 [] c = "." -> 46 [] c = "_" -> 95
      [] c \in Digits -> 48 + (CHOOSE n \in 0..9 :
             <<"0", "1", "2", "3", "4", "5", "6", "7", "8", "9">>[n + 1] = c)
      [] OTHER -> 97 + (CHOOSE n \in 0..25 :
             <<"a", "b", "c", "d", "e", "f", "g", "h", "i", "j", "k", "l", "m", "n",
               "o", "p", "q", "r", "s", "t", "u", "v", "w", "x", "y", "z">>[n + 1] = c)

RECURSIVE NameLess(_, _)
NameLess(a, b) ==
    IF b = <<>> THEN FALSE
    ELSE IF a = <<>> THEN TRUE
    ELSE IF Head(a) = Head(b) THEN NameLess(Tail(a), Tail(b))
    ELSE CharRank(Head(a)) < CharRank(Head(b))

\* component_files[ext] after the copy loop: the loop visits the components
\* in name order and a later component of the same extension replaces the
\* earlier copy
ComponentFile(f, table, ext) ==
    LET cs == {g \in Components(f, table) : ExtOf(Catalogue(g).name) = ext}
    IN  CHOOSE g \in cs : \A h \in cs \ {g} : NameLess(Catalogue(h).name, Catalogue(g).name)

\* GeoServerAPI.upload_shapefile: the files zipped from the temp directory,
\* the required ones and the optional ones that exist
ArchiveParts(f, table) ==
    {ComponentFile(f, table, ext) :
        ext \in (Range(required_exts) \cup Range(optional_exts)) \cap AvailableExts(f, table)}

(***************************************************************************)
(* tasks.publish_to_geoserver_task and tasks.delayed_shapefile_publish_task*)
(***************************************************************************)
Execution(kind, f, retries, obj) ==
    [kind |-> kind, f |-> f, retries |-> retries, pc |-> "publish", obj |-> obj,
     ok |-> FALSE, layer |-> NULL, store |-> NULL]

\* publish_to_geoserver_task lines 62-74: get the row, return unless it is
\* 'processed', hand a .shp file to the delayed task
PublishStart(f) ==
    /\ BagIn(Task("publish", f, 0), queue)
    /\ IF ~Exists(f) \/ files[f].gis_status # "processed"
       THEN /\ queue' = queue (-) One(Task("publish", f, 0))
            /\ UNCHANGED running
       ELSE IF EndsWith(Catalogue(f).name, shp)
       THEN /\ queue' = (queue (-) One(Task("publish", f, 0))) (+) One(Task("delayed", f, 0))
            /\ UNCHANGED running
       ELSE /\ RunningCount < MaxRunning
            /\ queue' = queue (-) One(Task("publish", f, 0))
            /\ running' = running (+) One(Execution("publish", f, 0, files[f]))
    /\ UNCHANGED <<allSpatialExtensions, geometryVars, requestVars, files, extVars, mapVars, resets, historyVars>>

\* a task that retries whatever its retry count: the variant C30 has to
\* tell apart
MayRetryAlways(r) == TRUE

\* line 165: self.request.retries < max_retries
MayRetry(r) == r < max_retries

\* delayed_shapefile_publish_task lines 131-176: get the row, return unless
\* it is 'processed', check the components, retry or give up when some are
\* missing
DelayedStart(f, r) ==
    /\ BagIn(Task("delayed", f, r), queue)
    /\ LET rest == queue (-) One(Task("delayed", f, r))
           missing_components == MissingComponents(f, files)
       IN  IF ~Exists(f) \/ files[f].gis_status # "processed"
           THEN /\ queue' = rest
                /\ UNCHANGED <<files, running>>
           ELSE IF ~EndsWith(Catalogue(f).name, shp)
           THEN /\ queue' = rest (+) One(Task("publish", f, 0))
                /\ UNCHANGED <<files, running>>
           ELSE IF missing_components # <<>>
           THEN IF MayRetry(r)
                THEN /\ queue' = rest (+) One(Task("delayed", f, r + 1))
                     /\ UNCHANGED <<files, running>>
                ELSE /\ queue' = rest
                     /\ files' = [files EXCEPT ![f] = SaveRow(f, [files[f] EXCEPT
                            !.gis_status = "error",
                            !.processing_log =
                                @ \o <<Entry("missing_components", missing_components)>>])]
                     /\ UNCHANGED running
           ELSE /\ RunningCount < MaxRunning
                /\ queue' = rest
                /\ running' = running (+) One(Execution("delayed", f, r, files[f]))
                /\ UNCHANGED files
    /\ UNCHANGED <<allSpatialExtensions, geometryVars, requestVars, extVars, mapVars, resets, historyVars>>

(***************************************************************************)
(* Publisher and Reconciler:                                               *)
(* SystematicGeoServerManager.publish_file_to_geoserver                    *)
(***************************************************************************)
DigitStr(i) == <<<<"0", "1", "2", "3", "4", "5", "6", "7", "8", "9">>[i + 1]>>

\* f"{expected_name}{i}"
NumberedName(name, i) == name \o DigitStr(i)

\* _verify_shapefile_creation: the expected name when _test_layer_exists
\* confirms it, else the first confirmed name among expected_name1..9, else
\* (None, None); seen is the set of names _test_layer_exists answers True for
VerifyShapefileCreation(expected_name, seen) ==
    IF expected_name \in seen THEN expected_name
    ELSE LET hits == {i \in 1..(VerifyRangeEnd - 1) : NumberedName(expected_name, i) \in seen}
         IN  IF hits = {} THEN NULL
             ELSE NumberedName(expected_name, CHOOSE i \in hits : \A j \in hits : i <= j)

\* the names _verify_shapefile_creation probes
VerifyCandidates(expected_name) ==
    {expected_name} \cup {NumberedName(expected_name, i) : i \in 1..(VerifyRangeEnd - 1)}

\* GeoServer accepting an upload into the store `name`: a new layer of that
\* name, or, when a layer of that name is already there, either the same
\* layer again or a layer auto-numbered with the first free number
LayersAfterUpload(name, layers) ==
    IF name \notin layers THEN {layers \cup {name}}
    ELSE LET free == {i \in 1..MaxSuffix : NumberedName(name, i) \notin layers}
         IN  {layers} \cup
             (IF free = {} THEN {}
              ELSE {layers \cup {NumberedName(name, CHOOSE i \in free : \A j \in free : i <= j)}})

\* a GeoServer that opens a store of its own for every upload, numbering the
\* name when it is taken: the behaviour C13 has to tell apart
StoresAfterUploadFresh(store_name, stores) ==
    IF store_name \in stores THEN stores \cup {NumberedName(store_name, 1)}
    ELSE stores \cup {store_name}

\* PUT .../datastores/{store_name}/file.shp and
\* PUT .../coveragestores/{store_name}/file.geotiff: the store is addressed
\* by its name, GeoServer creates it or loads the upload into the one it has
StoresAfterUpload(store_name, stores) == stores \cup {store_name}

Result(ok, layer, store, ws, stores, layers, failed, seen, parts) ==
    [ok |-> ok, layer |-> layer, store |-> store, ws |-> ws, stores |-> stores,
     layers |-> layers, failed |-> failed, seen |-> seen, parts |-> parts]

\* _publish_raster_with_temp_rename: the upload answers 2xx or not; on 2xx
\* the names are taken to be the systematic name, nothing is looked up
PublishRasterOutcomes(systematic_name) ==
    { Result(TRUE, systematic_name, systematic_name, TRUE,
             StoresAfterUpload(systematic_name, extStores),
             extLayers \cup {systematic_name},
             0, {}, {}),
      Result(FALSE, NULL, NULL, TRUE, extStores, extLayers, 1, {}, {}) }

\* _publish_shapefile_with_temp_rename: query and copy the components, give
\* up when a required one is missing, upload, then verify what was created
PublishShapefileOutcomes(f, systematic_name) ==
    IF MissingComponents(f, files) # <<>>
    THEN {Result(FALSE, NULL, NULL, TRUE, extStores, extLayers, 0, {}, {})}
    ELSE {Result(FALSE, NULL, NULL, TRUE, extStores, extLayers, 1, {}, {})} \cup
         { Result(VerifyShapefileCreation(systematic_name, seen) # NULL,
                  VerifyShapefileCreation(systematic_name, seen),
                  VerifyShapefileCreation(systematic_name, seen),
                  TRUE, StoresAfterUpload(systematic_name, extStores), layers, 0, seen,
                  ArchiveParts(f, files)) :
             <<layers, seen>> \in
                 UNION { {<<l, sn>> : sn \in SUBSET (VerifyCandidates(systematic_name) \cap l)} :
                         l \in LayersAfterUpload(systematic_name, extLayers) } }

\* the uploaded file is on the disk until delete_file_complete removes it
\* (views.py:746-753), which it does before it calls File.delete
OnDisk(f) ==
    /\ files[f] # Deleted
    /\ ~\E r \in inflight : r.op = "delete" /\ r.f = f

\* publish_file_to_geoserver lines 108-135: create_workspace answers or not,
\* then the branch of the file's suffix; the copy into the temp directory
\* raises when the file is no longer on the disk
PublishOutcomes(f) ==
    LET systematic_name == GenerateSystematicLayerName(f)
        file_ext == Suffix(Catalogue(f).name)
    IN  {Result(FALSE, NULL, NULL, extWorkspace, extStores, extLayers, 1, {}, {})} \cup
        (IF ~OnDisk(f)
         THEN {Result(FALSE, NULL, NULL, TRUE, extStores, extLayers, 0, {}, {})}
         ELSE IF file_ext \in RasterExts THEN PublishRasterOutcomes(systematic_name)
         ELSE IF file_ext = shp THEN PublishShapefileOutcomes(f, systematic_name)
         ELSE {Result(FALSE, NULL, NULL, TRUE, extStores, extLayers, 0, {}, {})})

\* the end of a publish as bundle_and_publish_shapefile_legacy writes it
\* (gis_utils.py:747-750): layer name and status, no datastore name; the
\* variant C29 has to tell apart
PublishedObjLegacy(t, o) ==
    [t.obj EXCEPT
        !.geoserver_layer_name = o.layer,
        !.gis_status = "published",
        !.processing_log = @ \o <<Entry("published_as", <<o.layer>>)>>]

\* publish_file_to_geoserver lines 137-158 and the task's save after it, on
\* the instance the task read at its start
PublishedObj(t, o) ==
    [t.obj EXCEPT
        !.geoserver_layer_name = o.layer,
        !.geoserver_datastore_name = o.store,
        !.geoserver_workspace = GEOSERVER_WORKSPACE,
        !.gis_status = "published",
        !.processing_log = @ \o <<Entry("published_as", <<o.layer>>),
                                  Entry("stored_metadata", <<o.layer>>)>>
                             \o (IF Suffix(Catalogue(t.f).name) = shp
                                 THEN <<Entry("extent_retrieved", <<>>)>> ELSE <<>>)
                             \o <<Entry(IF t.kind = "delayed" THEN "auto_published"
                                        ELSE "published", <<>>)>>]

\* the task's else branch: gis_status 'error' and a line in the log
FailedObj(t) ==
    [t.obj EXCEPT
        !.gis_status = "error",
        !.processing_log = @ \o <<Entry(IF t.kind = "delayed" THEN "auto_publishing_failed"
                                        ELSE "publishing_failed", <<>>)>>]

\* publish_to_geoserver_task lines 76-87, delayed_shapefile_publish_task
\* lines 178-192: publish and save the outcome
PublishStep(t) ==
    /\ BagIn(t, running)
    /\ t.kind \in {"publish", "delayed"} /\ t.pc = "publish"
    /\ running' = running (-) One(t)
    /\ \E o \in PublishOutcomes(t.f) :
        /\ extWorkspace' = o.ws
        /\ extStores' = o.stores
        /\ extLayers' = o.layers
        /\ files' = [files EXCEPT ![t.f] =
                        SaveRow(t.f, IF o.ok THEN PublishedObj(t, o) ELSE FailedObj(t))]
        /\ verified' = [verified EXCEPT ![t.f] = @ \cup o.seen]
        /\ archives' = [archives EXCEPT ![t.f] = IF o.parts = {} THEN @ ELSE o.parts]
        /\ transportFailures' = [transportFailures EXCEPT ![t.f] = @ + o.failed]
    /\ generated' = [generated EXCEPT ![t.f] = @ \cup
                        {[resets |-> resets[t.f], retried |-> t.retries > 0,
                          republish |-> files[t.f].gis_status = "published",
                          absent |-> files[t.f] = Deleted,
                          name |-> GenerateSystematicLayerName(t.f)]}]
    /\ UNCHANGED <<allSpatialExtensions, geometryVars, requestVars, queue, mapVars, resets, reconcileVars>>

(***************************************************************************)
(* management/commands/fix_shapefile_wms.py: the reset of one file the     *)
(* command found problematic (no layer name, or a REST check that did not  *)
(* answer 200)                                                             *)
(***************************************************************************)
ResetFile(f, force_republish) ==
    /\ Exists(f)
    /\ resets[f] < MaxResets
    /\ EndsWith(Catalogue(f).name, shp)
    /\ files[f].is_spatial
    /\ force_republish \/ files[f].gis_status = "published"
    /\ files' = [files EXCEPT ![f] = SaveRow(f, [files[f] EXCEPT
                    !.gis_status = "pending",
                    !.processing_log = <<Entry("reprocessing", <<>>)>>,
                    !.geoserver_layer_name = NULL,
                    !.geoserver_workspace = NULL])]
    /\ queue' = queue (+) One(Task("process", f, 0))
    /\ resets' = [resets EXCEPT ![f] = @ + 1]
    /\ UNCHANGED <<allSpatialExtensions, geometryVars, requestVars, running, extVars, mapVars, historyVars>>

(***************************************************************************)
(* LayerGroupComposer: geoserver_layer_group_manager.LayerGroupManager     *)
(***************************************************************************)
\* MapLayer.get_full_layer_name as _build_layer_group_data builds it
FullLayerName(row) ==
    (IF row.geoserver_workspace = NULL THEN GEOSERVER_WORKSPACE
     ELSE row.geoserver_workspace) \o <<":">> \o row.geoserver_layer_name

\* map_obj.map_layers.filter(is_visible=True,
\*     file__geoserver_layer_name__isnull=False)
GroupRows(m, layerRows, table) ==
    {r \in layerRows :
        r.map = m /\ r.is_visible /\ table[r.file].geoserver_layer_name # NULL}

\* the rows in descending layer_order: the ordering C15 has to tell apart
OrderedRowsDescending(rows) ==
    {s \in [1..Cardinality(rows) -> rows] :
        /\ \A i, j \in DOMAIN s : i # j => s[i] # s[j]
        /\ \A i, j \in DOMAIN s : i < j => s[i].layer_order >= s[j].layer_order}

\* .order_by('layer_order'): every arrangement of the rows in ascending
\* layer_order (rows of equal order come in either order)
OrderedRows(rows) ==
    {s \in [1..Cardinality(rows) -> rows] :
        /\ \A i, j \in DOMAIN s : i # j => s[i] # s[j]
        /\ \A i, j \in DOMAIN s : i < j => s[i].layer_order <= s[j].layer_order}

\* map_layer.style_name or "": no request gives a MapLayer a style
StyleName(row) == <<>>

\* _build_layer_group_data: the published list and the style list of the
\* request, one entry each per row in the order of the rows
LayerGroupData(s, table) ==
    [published |-> [i \in DOMAIN s |-> FullLayerName(table[s[i].file])],
     style |-> [i \in DOMAIN s |-> StyleName(s[i])]]

\* the definitions update_layer_group and create_layer_group may send
GroupDefinitions(m, layerRows, table) ==
    {LayerGroupData(s, table) : s \in OrderedRows(GroupRows(m, layerRows, table))}

\* create_layer_group: fails without a layer, else POSTs the definition
CreateLayerGroup(m, layerRows, table, group) ==
    IF GroupRows(m, layerRows, table) = {} THEN {group}
    ELSE GroupDefinitions(m, layerRows, table)

\* an update that PUTs whatever list it read, the empty one too: the
\* behaviour C14 has to tell apart
UpdateLayerGroupAlwaysPut(m, layerRows, table, group) ==
    IF group = NoGroup THEN {NoGroup}
    ELSE GroupDefinitions(m, layerRows, table)

\* update_layer_group: DELETE when no layer is left, else PUT of the whole
\* definition, which GeoServer answers 404 when the group does not exist
UpdateLayerGroup(m, layerRows, table, group) ==
    IF GroupRows(m, layerRows, table) = {} THEN {NoGroup}
    ELSE IF group = NoGroup THEN {NoGroup}
    ELSE GroupDefinitions(m, layerRows, table)

\* MapLayer.objects.create(map, file, layer_order): visible and opaque
MapLayerRow(m, f, order) ==
    [map |-> m, file |-> f, layer_order |-> order, is_visible |-> TRUE,
     opacity |-> "1.0"]

RowsOf(m) == {r \in mapLayers : r.map = m}

(***************************************************************************)
(* Map.calculate_and_update_center. Latitudes and longitudes are counted   *)
(* in hundredths of a degree.                                              *)
(***************************************************************************)
\* the latLonBoundingBox GeoServer holds for the layer of file f
Extent(f) ==
    [min_lat |-> 3000 + 100 * f, max_lat |-> 3000 + 102 * f,
     min_lng |-> 1000 * f - 10000, max_lng |-> 1020 * f - 10000]

\* lines 413-418 and 504-507: 40.0 / -100.0 and zoom_level 4
DefaultCenter == [lat |-> 4000, lng |-> 0 - 10000]
DefaultZoom == 4

Least(S) == CHOOSE x \in S : \A y \in S : x <= y
Greatest(S) == CHOOSE x \in S : \A y \in S : y <= x

\* lines 463-471: the overall bounds of the extents that resolved
UnionExtent(resolved) ==
    [min_lat |-> Least({Extent(f).min_lat : f \in resolved}),
     max_lat |-> Greatest({Extent(f).max_lat : f \in resolved}),
     min_lng |-> Least({Extent(f).min_lng : f \in resolved}),
     max_lng |-> Greatest({Extent(f).max_lng : f \in resolved})]

\* lines 492-502: thresholds 10, 1, 0.1 and 0.01 degrees
ZoomLevel(max_range) ==
    IF max_range > 1000 THEN 4
    ELSE IF max_range > 100 THEN 8
    ELSE IF max_range > 10 THEN 12
    ELSE IF max_range > 1 THEN 16
    ELSE 18

\* lines 408-521 on the Map row g: members are the files of the visible
\* rows with a layer name, resolved those whose extent GeoServer returned
CalculateCenter(g, members, resolved) ==
    IF members = {}
    THEN [g EXCEPT !.center = DefaultCenter, !.zoom_level = DefaultZoom]
    ELSE IF resolved # {}
         THEN LET b == UnionExtent(resolved)
                  lat_range == b.max_lat - b.min_lat
                  lng_range == b.max_lng - b.min_lng
              IN  [center |-> [lat |-> (b.min_lat + b.max_lat) \div 2,
                               lng |-> (b.min_lng + b.max_lng) \div 2],
                   zoom_level |-> ZoomLevel(IF lat_range > lng_range
                                            THEN lat_range ELSE lng_range),
                   bbox |-> b]
         ELSE [center |-> DefaultCenter, zoom_level |-> DefaultZoom, bbox |-> Unset]

\* lines 431-439: the GET of a member's extent answers 200 for a layer
\* GeoServer has, unless GeoServer cannot be reached for that member
Resolved(members, table, unreachable) ==
    {f \in members : /\ table[f].geoserver_layer_name \in extLayers
                     /\ table[f].geoserver_datastore_name \in extStores
                     /\ f \notin unreachable}

\* one call of calculate_and_update_center on map m
UpdateCenter(m, layerRows, table, unreachable) ==
    LET members == {r.file : r \in GroupRows(m, layerRows, table)}
        resolved == Resolved(members, table, unreachable)
    IN  /\ mapGeometry' = [mapGeometry EXCEPT
                              ![m] = CalculateCenter(@, members, resolved)]
        /\ centerCalls' = [centerCalls EXCEPT
                              ![m] = [made |-> TRUE, members |-> members,
                                      resolved |-> resolved]]

\* distinct file ids a request may select, in request order
Selections == {<<1>>, <<6>>, <<1, 6>>, <<6, 1>>}

(***************************************************************************)
(* map_views.create_map_view (POST)                                        *)
(***************************************************************************)
\* lines 150-172: a MapLayer for every selected file that is spatial and has
\* a layer name, numbered in request order
RECURSIVE CreateMapRows(_, _, _)
CreateMapRows(m, sel, layer_order) ==
    IF sel = <<>> THEN {}
    ELSE IF Exists(Head(sel)) /\ files[Head(sel)].is_spatial
            /\ files[Head(sel)].geoserver_layer_name # NULL
         THEN {MapLayerRow(m, Head(sel), layer_order)}
              \cup CreateMapRows(m, Tail(sel), layer_order + 1)
         ELSE CreateMapRows(m, Tail(sel), layer_order)

CreateMap(m, sel, unreachable) ==
    /\ m \notin maps
    /\ LET rows == CreateMapRows(m, sel, 0)
       IN  IF rows = {}
           THEN UNCHANGED <<mapVars, mapGeometry, centerCalls>>
           ELSE /\ maps' = maps \cup {m}
                /\ mapLayers' = mapLayers \cup rows
                /\ \E g \in CreateLayerGroup(m, rows, files, layerGroups[m]) :
                       layerGroups' = [layerGroups EXCEPT ![m] = g]
                /\ UpdateCenter(m, rows, files, unreachable)
    /\ UNCHANGED <<allSpatialExtensions, groupDeletes, requestVars, pipelineVars>>

(***************************************************************************)
(* map_views.add_layer_to_map                                              *)
(***************************************************************************)
AddLayer(m, f, layer_order) ==
    /\ m \in maps
    /\ Exists(f)
    /\ ~\E r \in RowsOf(m) : r.file = f
    /\ layer_order \in {0, Cardinality(RowsOf(m))}
    /\ LET rows == mapLayers \cup {MapLayerRow(m, f, layer_order)}
       IN  /\ mapLayers' = rows
           /\ \E g1 \in UpdateLayerGroup(m, rows, files, layerGroups[m]) :
              \E g2 \in UpdateLayerGroup(m, rows, files, g1) :
                  layerGroups' = [layerGroups EXCEPT ![m] = g2]
    /\ UNCHANGED <<allSpatialExtensions, geometryVars, requestVars, pipelineVars, maps>>

(***************************************************************************)
(* map_views.add_layers_to_map                                             *)
(***************************************************************************)
\* aggregate(Max('layer_order'))['max_order'] or -1
MaxOrderOrMinusOne(m) ==
    LET orders == {r.layer_order : r \in RowsOf(m)}
        max_order == IF orders = {} THEN 0
                     ELSE CHOOSE o \in orders : \A p \in orders : p <= o
    IN  IF max_order = 0 THEN -1 ELSE max_order

RECURSIVE AddLayersRows(_, _, _, _)
AddLayersRows(m, sel, layer_order, have) ==
    IF sel = <<>> THEN {}
    ELSE IF /\ Exists(Head(sel)) /\ files[Head(sel)].is_spatial
            /\ files[Head(sel)].gis_status = "published"
            /\ files[Head(sel)].geoserver_layer_name # NULL
            /\ Head(sel) \notin have
         THEN {MapLayerRow(m, Head(sel), layer_order)}
              \cup AddLayersRows(m, Tail(sel), layer_order + 1, have \cup {Head(sel)})
         ELSE AddLayersRows(m, Tail(sel), layer_order, have)

AddLayers(m, sel, unreachable) ==
    /\ m \in maps
    /\ LET added == AddLayersRows(m, sel, MaxOrderOrMinusOne(m) + 1,
                                  {r.file : r \in RowsOf(m)})
           rows == mapLayers \cup added
       IN  /\ added # {}
           /\ \A r \in added : r.layer_order <= MaxLayerOrder
           /\ mapLayers' = rows
           /\ \E g \in UpdateLayerGroup(m, rows, files, layerGroups[m]) :
                  layerGroups' = [layerGroups EXCEPT ![m] = g]
           /\ UpdateCenter(m, rows, files, unreachable)
    /\ UNCHANGED <<allSpatialExtensions, groupDeletes, requestVars, pipelineVars, maps>>

(***************************************************************************)
(* management command update_map_centers                                   *)
(***************************************************************************)
UpdateMapCenters(m, unreachable) ==
    /\ m \in maps
    /\ UpdateCenter(m, mapLayers, files, unreachable)
    /\ UNCHANGED <<allSpatialExtensions, groupDeletes, requestVars, pipelineVars, mapVars>>

(***************************************************************************)
(* map_views.delete_map: Map.delete                                        *)
(***************************************************************************)
\* a delete that takes "not found" for a failure: the behaviour C21 has to
\* tell apart
DeleteSucceededStrict(status) == status = 200

\* delete_layer_group lines 155-162: 200 and 404 are both success
DeleteSucceeded(status) == status \in {200, 404}

\* what GeoServer may answer to the DELETE of a layer group and the group
\* it keeps: removed, not found, or a failure that leaves the group
DeleteAnswers(group) ==
    {[status |-> IF group = NoGroup THEN 404 ELSE 200, group |-> NoGroup],
     [status |-> 500, group |-> group]}

\* delete_layer_group lines 137-167: one call, [the group existed, status
\* answered, success returned, group left on GeoServer]
DeleteLayerGroup(group) ==
    {[existed |-> group # NoGroup, status |-> a.status,
      success |-> DeleteSucceeded(a.status), group |-> a.group] :
        a \in DeleteAnswers(group)}

\* n calls of delete_layer_group in a row, the first on group
RECURSIVE DeleteCalls(_, _)
DeleteCalls(group, n) ==
    IF n = 0 THEN {<<>>}
    ELSE UNION {{<<call>> \o rest : rest \in DeleteCalls(call.group, n - 1)} :
                    call \in DeleteLayerGroup(group)}

\* models.py lines 388-400: delete_layer_group, then the delete of the
\* MapLayer rows and of the Map row; signals.py lines 41-58: after the rows
\* are gone each of them has update_layer_group run, which finds no layer
\* and calls delete_layer_group again
DeleteMap(m) ==
    /\ m \in maps
    /\ ~\E r \in inflight : r.m = m
    /\ \E calls \in DeleteCalls(layerGroups[m], 1 + Cardinality(RowsOf(m))) :
          /\ layerGroups' = [layerGroups EXCEPT ![m] = calls[Len(calls)].group]
          /\ groupDeletes' = [groupDeletes EXCEPT ![m] = calls]
    /\ maps' = maps \ {m}
    /\ mapLayers' = mapLayers \ RowsOf(m)
    /\ mapGeometry' = [mapGeometry EXCEPT ![m] = NewGeometry]
    /\ centerCalls' = [centerCalls EXCEPT ![m] = NoCall]
    /\ UNCHANGED <<allSpatialExtensions, requestVars, pipelineVars>>

(***************************************************************************)
(* map_views.remove_layer_from_map                                         *)
(***************************************************************************)
RemoveLayer(m, f) ==
    /\ m \in maps
    /\ \E r \in RowsOf(m) :
        /\ r.file = f
        /\ LET rows == mapLayers \ {r}
           IN  /\ mapLayers' = rows
               /\ \E g1 \in UpdateLayerGroup(m, rows, files, layerGroups[m]) :
                  \E g2 \in UpdateLayerGroup(m, rows, files, g1) :
                      layerGroups' = [layerGroups EXCEPT ![m] = g2]
    /\ UNCHANGED <<allSpatialExtensions, geometryVars, requestVars, pipelineVars, maps>>

(***************************************************************************)
(* map_views.update_layer_order, update_layer_visibility and               *)
(* update_layer_opacity                                                    *)
(***************************************************************************)
\* the rows of m with the layer_order the request gives each of them
Reordered(m, new_order) ==
    {r \in mapLayers : r.map # m}
        \cup {[r EXCEPT !.layer_order = new_order[r.file]] : r \in RowsOf(m)}

\* lines 285-296: QuerySet.update of every listed row (no signal), then
\* update_layer_group
UpdateLayerOrder(m, new_order) ==
    /\ m \in maps
    /\ RowsOf(m) # {}
    /\ mapLayers' = Reordered(m, new_order)
    /\ \E g \in UpdateLayerGroup(m, Reordered(m, new_order), files, layerGroups[m]) :
           layerGroups' = [layerGroups EXCEPT ![m] = g]
    /\ UNCHANGED <<allSpatialExtensions, geometryVars, requestVars, pipelineVars, maps>>

\* opacity values a request may carry (0 <= opacity <= 1)
Opacities == {"1.0", "0.5"}

\* lines 500-517 and 527-540: layer.save(update_fields=[field]); post_save
\* runs with created=False, so no update_layer_group is called
SaveLayerField(m, row, changed) ==
    /\ m \in maps
    /\ row \in RowsOf(m)
    /\ mapLayers' = (mapLayers \ {row}) \cup {changed}
    /\ notComposed' = IF changed # row THEN notComposed \cup {m} ELSE notComposed
    /\ UNCHANGED <<allSpatialExtensions, geometryVars, pipelineVars, maps, layerGroups, inflight>>

UpdateLayerVisibility(m, f, visible) ==
    \E row \in RowsOf(m) :
        row.file = f /\ SaveLayerField(m, row, [row EXCEPT !.is_visible = visible])

UpdateLayerOpacity(m, f, opacity) ==
    \E row \in RowsOf(m) :
        row.file = f /\ SaveLayerField(m, row, [row EXCEPT !.opacity = opacity])

(***************************************************************************)
(* The map requests step by step, as the threads of the web server run     *)
(* them side by side: the write of the MapLayer rows, then for every call  *)
(* of update_layer_group the query of the rows and the PUT or DELETE       *)
(***************************************************************************)
\* a request that has written its rows and has `calls` calls of
\* update_layer_group to make; snapshot and data are what the call in
\* progress has read and built; cleanup tells whether the request has
\* called delete_from_geoserver
Request(op, m, f, calls) ==
    [op |-> op, m |-> m, f |-> f, calls |-> calls, pc |-> "read",
     snapshot |-> {}, data |-> NoGroup, cleanup |-> FALSE]

\* add_layer_to_map lines 216-236: the row is created; the post_save
\* handler and the view will each call update_layer_group
BeginAddLayer(m, f, layer_order) ==
    /\ Cardinality(inflight) < MaxInflight
    /\ m \in maps
    /\ Exists(f)
    /\ ~\E r \in RowsOf(m) : r.file = f
    /\ layer_order \in {0, Cardinality(RowsOf(m))}
    /\ Request("add", m, f, 2) \notin inflight
    /\ mapLayers' = mapLayers \cup {MapLayerRow(m, f, layer_order)}
    /\ inflight' = inflight \cup {Request("add", m, f, 2)}
    /\ UNCHANGED <<allSpatialExtensions, geometryVars, pipelineVars, maps, layerGroups, notComposed>>

\* remove_layer_from_map lines 256-260: the row is deleted; the post_delete
\* handler and the view will each call update_layer_group
BeginRemoveLayer(m, f) ==
    /\ Cardinality(inflight) < MaxInflight
    /\ m \in maps
    /\ Request("remove", m, f, 2) \notin inflight
    /\ \E r \in RowsOf(m) :
        /\ r.file = f
        /\ mapLayers' = mapLayers \ {r}
    /\ inflight' = inflight \cup {Request("remove", m, f, 2)}
    /\ UNCHANGED <<allSpatialExtensions, geometryVars, pipelineVars, maps, layerGroups, notComposed>>

\* update_layer_order lines 280-292: the rows are updated; the view will
\* call update_layer_group
BeginUpdateLayerOrder(m, new_order) ==
    /\ Cardinality(inflight) < MaxInflight
    /\ m \in maps
    /\ RowsOf(m) # {}
    /\ Request("order", m, NoFile, 1) \notin inflight
    /\ mapLayers' = Reordered(m, new_order)
    /\ inflight' = inflight \cup {Request("order", m, NoFile, 1)}
    /\ UNCHANGED <<allSpatialExtensions, geometryVars, pipelineVars, maps, layerGroups, notComposed>>

\* update_layer_group lines 101-111: the query of the rows and the
\* definition built from them (a DELETE when there is none)
ComposeRead(r) ==
    /\ r \in inflight
    /\ r.pc = "read"
    /\ \E d \in (IF GroupRows(r.m, mapLayers, files) = {} THEN {NoGroup}
                  ELSE GroupDefinitions(r.m, mapLayers, files)) :
           inflight' = (inflight \ {r}) \cup
               {[r EXCEPT !.pc = "write", !.snapshot = RowsOf(r.m), !.data = d]}
    /\ UNCHANGED <<allSpatialExtensions, geometryVars, pipelineVars, mapVars, notComposed>>

\* update_layer_group lines 107-122: the DELETE, or the PUT, which GeoServer
\* answers 404 when the group does not exist; then the next call of the
\* request or its end
ComposeWrite(r) ==
    /\ r \in inflight
    /\ r.pc = "write"
    /\ layerGroups' = [layerGroups EXCEPT ![r.m] =
                          IF r.data = NoGroup \/ @ = NoGroup THEN NoGroup ELSE r.data]
    /\ inflight' = (inflight \ {r}) \cup
                      (IF r.calls > 1 THEN {Request(r.op, r.m, r.f, r.calls - 1)} ELSE {})
    /\ UNCHANGED <<allSpatialExtensions, geometryVars, pipelineVars, maps, mapLayers, notComposed>>

(***************************************************************************)
(* Cleanup and delete: File.delete with its signals, as                    *)
(* views.delete_file_complete runs it                                      *)
(***************************************************************************)
\* the layers GeoServer removes with a store (DELETE ...?recurse=true)
StoreLayers(store) ==
    {l \in extLayers : l = store \/ \E i \in 1..MaxSuffix : l = NumberedName(store, i)}

\* delete_from_geoserver: nothing without a layer name; else DELETE of the
\* layer and of the store, each of which GeoServer serves or not
DeleteFromGeoServerOutcomes(row) ==
    IF row.geoserver_layer_name = NULL
    THEN {[stores |-> extStores, layers |-> extLayers]}
    ELSE LET datastore_name == IF row.geoserver_datastore_name = NULL
                               THEN row.geoserver_layer_name
                               ELSE row.geoserver_datastore_name
         IN  {[stores |-> extStores \ s, layers |-> (extLayers \ l) \ sl] :
                 <<s, l, sl>> \in
                    {<<{}, {}, {}>>, <<{}, {row.geoserver_layer_name}, {}>>,
                     <<{datastore_name}, {}, StoreLayers(datastore_name) \cap
                           (IF datastore_name \in extStores THEN extLayers ELSE {})>>,
                     <<{datastore_name}, {row.geoserver_layer_name},
                       StoreLayers(datastore_name) \cap
                           (IF datastore_name \in extStores THEN extLayers ELSE {})>>}}

\* the layer group of map m after the delete of file f: the pre_delete
\* signal updates the group of every map of a spatial file while the
\* MapLayer rows are still there, the post_delete signal of each cascaded
\* MapLayer row updates it again without them
GroupAfterDelete(m, f, rows, table) ==
    IF ~\E r \in RowsOf(m) : r.file = f THEN {layerGroups[m]}
    ELSE IF files[f].is_spatial
    THEN UNION {UpdateLayerGroup(m, rows, table, g1) :
                   g1 \in UpdateLayerGroup(m, mapLayers, files, layerGroups[m])}
    ELSE UpdateLayerGroup(m, rows, table, layerGroups[m])

DeleteFile(f) ==
    /\ Exists(f)
    /\ \E o \in (IF files[f].is_spatial THEN DeleteFromGeoServerOutcomes(files[f])
                 ELSE {[stores |-> extStores, layers |-> extLayers]}) :
        /\ extStores' = o.stores
        /\ extLayers' = o.layers
    /\ LET rows == {r \in mapLayers : r.file # f}
           table == [files EXCEPT ![f] = Deleted]
       IN  /\ mapLayers' = rows
           /\ files' = table
           /\ layerGroups' \in
                {g \in [MapIds -> UNION {GroupAfterDelete(m, f, rows, table) : m \in MapIds}] :
                    \A m \in MapIds : g[m] \in GroupAfterDelete(m, f, rows, table)}
    /\ UNCHANGED <<allSpatialExtensions, geometryVars, requestVars, queue, running, extWorkspace, maps, resets,
                   historyVars>>

(***************************************************************************)
(* Reconciler on a listing: _verify_shapefile_creation, which the publish  *)
(* path calls, and the detection of bundle_and_publish_shapefile_legacy    *)
(* and publish_to_geoserver_legacy, both applied to the layers the WMS of  *)
(* GeoServer lists                                                         *)
(***************************************************************************)
\* sub in s
Contains(s, sub) ==
    \E i \in 0..(Len(s) - Len(sub)) : SubSeq(s, i + 1, i + Len(sub)) = sub

\* s.isdigit()
IsDigitStr(s) == s # <<>> /\ \A i \in 1..Len(s) : s[i] \in Digits

\* int(s) for a string of digits
RECURSIVE ParseInt(_)
ParseInt(s) ==
    IF s = <<>> THEN 0
    ELSE 10 * ParseInt(SubSeq(s, 1, Len(s) - 1))
         + (CHOOSE n \in 0..9 : DigitStr(n) = <<s[Len(s)]>>)

\* gis_utils.py:732  numbered_layers.append((999, layer_name))
UnparseableRank == 999

\* f'{workspace}:'
WorkspacePrefix == GEOSERVER_WORKSPACE \o <<":">>

\* _test_layer_exists(layer_name): a GetMap of workspace:layer_name, which
\* the WMS serves for the layers it lists
TestLayerExists(layer_name, listing) == (WorkspacePrefix \o layer_name) \in listing

\* the names _verify_shapefile_creation gets True for on a listing
SeenIn(expected_name, listing) ==
    {n \in VerifyCandidates(expected_name) : TestLayerExists(n, listing)}

\* the (num, layer_name) pair appended for one layer of similar_layers
NumberedLayer(layer, original_shp_name) ==
    LET layer_name == RemoveAll(layer, WorkspacePrefix)
        suffix == RemoveAll(layer_name, original_shp_name)
    IN  [num |-> IF layer_name = original_shp_name THEN 0
                 ELSE IF IsDigitStr(suffix) THEN ParseInt(suffix)
                 ELSE UnparseableRank,
         name |-> layer_name]

\* the order of the (num, layer_name) tuples that sort(reverse=True) uses
PairLess(a, b) == a.num < b.num \/ (a.num = b.num /\ NameLess(a.name, b.name))

\* the detection block: similar_layers, numbered_layers, sort(reverse=True)
\* and numbered_layers[0][1]; the name stays as it is without similar layers
DetectActualLayerName(original_shp_name, listing) ==
    LET similar_layers == {layer \in listing :
                              /\ Contains(layer, original_shp_name)
                              /\ StartsWith(layer, WorkspacePrefix)}
        numbered_layers == {NumberedLayer(layer, original_shp_name) :
                               layer \in similar_layers}
    IN  IF numbered_layers = {} THEN original_shp_name
        ELSE (CHOOSE a \in numbered_layers :
                 \A b \in numbered_layers \ {a} : PairLess(b, a)).name

\* the shapefile whose layers the listing is about
ReconcileFile == 1

\* what the WMS may list: the systematic name of the shapefile, the name
\* auto-numbered 1, 2 and 5, the name continued by text, and a layer of
\* another workspace
ListingCandidates ==
    LET base == GenerateSystematicLayerName(ReconcileFile)
    IN  {WorkspacePrefix \o base,
         WorkspacePrefix \o NumberedName(base, 1),
         WorkspacePrefix \o NumberedName(base, 2),
         WorkspacePrefix \o NumberedName(base, 5),
         WorkspacePrefix \o base \o <<"_", "o", "r", "i", "g">>,
         <<"t", "e", "s", "t", ":">> \o NumberedName(base, 9)}

\* _verify_shapefile_creation(systematic_name) against the listing
VerifyCreation(f) ==
    /\ reconciled = NotReconciled
    /\ reconciled' = [by |-> "verify",
                      name |-> VerifyShapefileCreation(GenerateSystematicLayerName(f),
                                   SeenIn(GenerateSystematicLayerName(f), wms_layers))]
    /\ UNCHANGED <<allSpatialExtensions, geometryVars, requestVars, files, queue, running, extVars, mapVars, resets,
                   verified, generated, archives, transportFailures, wms_layers>>

\* the detection of the legacy publish functions against the listing
DetectActual(f) ==
    /\ reconciled = NotReconciled
    /\ reconciled' = [by |-> "detect",
                      name |-> DetectActualLayerName(GenerateSystematicLayerName(f),
                                                     wms_layers)]
    /\ UNCHANGED <<allSpatialExtensions, geometryVars, requestVars, files, queue, running, extVars, mapVars, resets,
                   verified, generated, archives, transportFailures, wms_layers>>

(***************************************************************************)
(* management/commands/migrate_to_systematic_naming.py: one published file *)
(* whose layer name is not its systematic name                             *)
(***************************************************************************)
\* lines 36-91: check_layer_exists answers False whenever the WMS does not
\* list the new name or does not answer; delete_from_geoserver; unless the
\* delete failed and --force is not given (proceed is FALSE then), the row
\* is saved 'processed' without layer name and the publish begins
MigrateFile(f, proceed) ==
    /\ Exists(f)
    /\ Len(files[f].processing_log) <= MaxLogLen
    /\ files[f].is_spatial
    /\ files[f].gis_status = "published"
    /\ files[f].geoserver_layer_name # NULL
    /\ files[f].geoserver_layer_name # GenerateSystematicLayerName(f)
    /\ \E o \in DeleteFromGeoServerOutcomes(files[f]) :
        /\ proceed \/ files[f].geoserver_layer_name \in o.layers
                   \/ files[f].geoserver_datastore_name \in o.stores
        /\ extStores' = o.stores
        /\ extLayers' = o.layers
    /\ IF proceed
       THEN LET obj == SaveRow(f, [files[f] EXCEPT !.geoserver_layer_name = NULL,
                                                   !.gis_status = "processed"])
            IN  /\ files' = [files EXCEPT ![f] = obj]
                /\ running' = running (+) One(Execution("migrate", f, 0, obj))
       ELSE UNCHANGED <<files, running>>
    /\ UNCHANGED <<allSpatialExtensions, geometryVars, requestVars, queue, extWorkspace, mapVars,
                   resets, historyVars>>

\* lines 93-101: publish_file_to_geoserver on the instance of the command;
\* the row is saved by the publish when it succeeds and left as it is (still
\* 'processed') when it fails
MigratePublish(t) ==
    /\ BagIn(t, running)
    /\ t.kind = "migrate" /\ t.pc = "publish"
    /\ running' = running (-) One(t)
    /\ \E o \in PublishOutcomes(t.f) :
        /\ extWorkspace' = o.ws
        /\ extStores' = o.stores
        /\ extLayers' = o.layers
        /\ files' = IF o.ok
                    THEN [files EXCEPT ![t.f] = SaveRow(t.f, [PublishedObj(t, o) EXCEPT
                             !.processing_log = SubSeq(@, 1, Len(@) - 1)])]
                    ELSE files
        /\ verified' = [verified EXCEPT ![t.f] = @ \cup o.seen]
        /\ archives' = [archives EXCEPT ![t.f] = IF o.parts = {} THEN @ ELSE o.parts]
        /\ transportFailures' = [transportFailures EXCEPT ![t.f] = @ + o.failed]
    /\ generated' = [generated EXCEPT ![t.f] = @ \cup
                        {[resets |-> resets[t.f], retried |-> FALSE,
                          republish |-> files[t.f].gis_status = "published",
                          absent |-> files[t.f] = Deleted,
                          name |-> GenerateSystematicLayerName(t.f)]}]
    /\ UNCHANGED <<allSpatialExtensions, geometryVars, requestVars, queue, mapVars, resets, reconcileVars>>

(***************************************************************************)
(* management/commands/fix_all_shapefile_layers.py --auto-fix: the layer   *)
(* name of one published shapefile synchronised with what the WMS lists    *)
(***************************************************************************)
\* <<":">> \o name for the layers of a set
Listed(layers) == {GEOSERVER_WORKSPACE \o <<":">> \o l : l \in layers}

\* lines 37-156: nothing when the WMS lists the stored name or no similar
\* layer; else the stored name is replaced by the highest numbered similar
\* layer and a line is added to the log.  The WMS lists some of the layers
\* GeoServer has.
SyncLayerName(f) ==
    /\ Exists(f)
    /\ Len(files[f].processing_log) <= MaxLogLen
    /\ files[f].is_spatial
    /\ files[f].gis_status = "published"
    /\ EndsWith(Catalogue(f).name, shp)
    /\ files[f].geoserver_layer_name # NULL
    /\ \E wms \in SUBSET Listed(extLayers) :
        LET base_name == files[f].geoserver_layer_name
            expected_layer == (IF files[f].geoserver_workspace = NULL
                               THEN GEOSERVER_WORKSPACE
                               ELSE files[f].geoserver_workspace) \o <<":">> \o base_name
            similar_layers == {layer \in wms : /\ Contains(layer, base_name)
                                               /\ StartsWith(layer, GEOSERVER_WORKSPACE \o <<":">>)}
        IN  /\ expected_layer \notin wms
            /\ similar_layers # {}
            /\ files' = [files EXCEPT ![f] = SaveRow(f, [files[f] EXCEPT
                            !.geoserver_layer_name = DetectActualLayerName(base_name, wms),
                            !.processing_log = @ \o <<Entry("auto_fixed", <<>>)>>])]
    /\ UNCHANGED <<allSpatialExtensions, geometryVars, requestVars, queue, running, extVars, mapVars,
                   resets, historyVars>>

(***************************************************************************)
(* The delete of a file step by step: views.delete_file_complete calling   *)
(* File.delete, whose super().delete() sends pre_delete, removes the       *)
(* MapLayer rows (post_delete for each) and then the File row              *)
(***************************************************************************)
\* a File table in which the row of f is kept when GeoServer still has a
\* store of the file: the delete C20 has to tell apart
TableAfterDeleteIfClean(f) ==
    IF \E st \in extStores : StartsWith(st, GenerateSystematicLayerName(f)) THEN files
    ELSE [files EXCEPT ![f] = Deleted]

\* super().delete(): the row is removed whatever the cleanup has done
TableAfterDelete(f) == [files EXCEPT ![f] = Deleted]

\* delete_file_complete lines 705-727 (its import of GeoServerManager fails
\* and is caught, nothing is deleted there) and File.delete lines 183-193:
\* delete_from_geoserver for a spatial file with a layer name
BeginDeleteFile(f) ==
    /\ Cardinality(inflight) < MaxInflight
    /\ Exists(f)
    /\ ~\E r \in inflight : r.op = "delete" /\ r.f = f
    /\ LET attempted == files[f].is_spatial /\ files[f].geoserver_layer_name # NULL
       IN  /\ \E o \in (IF attempted THEN DeleteFromGeoServerOutcomes(files[f])
                        ELSE {[stores |-> extStores, layers |-> extLayers]}) :
                /\ extStores' = o.stores
                /\ extLayers' = o.layers
           /\ inflight' = inflight \cup
                  {[Request("delete", NoMap, f, 0) EXCEPT !.pc = "pre_delete",
                                                          !.cleanup = attempted]}
    /\ UNCHANGED <<allSpatialExtensions, geometryVars, files, queue, running, extWorkspace, mapVars,
                   resets, historyVars, notComposed>>

\* signals.remove_file_from_maps_on_delete (pre_delete): update_layer_group
\* for every map of a spatial file, the MapLayer rows still being there
DeletePreDelete(r) ==
    /\ r \in inflight
    /\ r.op = "delete" /\ r.pc = "pre_delete"
    /\ layerGroups' \in
           {g \in [MapIds -> UNION {UpdateLayerGroup(m, mapLayers, files, layerGroups[m])
                                      \cup {layerGroups[m]} : m \in MapIds}] :
               \A m \in MapIds :
                   g[m] \in IF Exists(r.f) /\ files[r.f].is_spatial
                                /\ \E x \in RowsOf(m) : x.file = r.f
                             THEN UpdateLayerGroup(m, mapLayers, files, layerGroups[m])
                             ELSE {layerGroups[m]}}
    /\ inflight' = (inflight \ {r}) \cup {[r EXCEPT !.pc = "cascade"]}
    /\ UNCHANGED <<allSpatialExtensions, geometryVars, pipelineVars, maps, mapLayers, notComposed>>

\* the cascade of super().delete(): the MapLayer rows of the file go,
\* update_layer_group_on_layer_remove (post_delete) updates their maps, the
\* File row goes; delete_file_complete lines 761-768 then fail to import
\* LayerGroupManager from geoserver_manager and update nothing
DeleteCascade(r) ==
    /\ r \in inflight
    /\ r.op = "delete" /\ r.pc = "cascade"
    /\ LET rows == {x \in mapLayers : x.file # r.f}
           table == TableAfterDelete(r.f)
       IN  /\ mapLayers' = rows
           /\ files' = table
           /\ layerGroups' \in
                  {g \in [MapIds -> UNION {UpdateLayerGroup(m, rows, table, layerGroups[m])
                                             \cup {layerGroups[m]} : m \in MapIds}] :
                      \A m \in MapIds :
                          g[m] \in IF \E x \in RowsOf(m) : x.file = r.f
                                    THEN UpdateLayerGroup(m, rows, table, layerGroups[m])
                                    ELSE {layerGroups[m]}}
    /\ inflight' = inflight \ {r}
    /\ UNCHANGED <<allSpatialExtensions, geometryVars, queue, running, extVars, maps, resets,
                   historyVars, notComposed>>

(***************************************************************************)
(* Specifications.  Each one lets the user upload a part of Catalogue and  *)
(* runs the tasks on whatever is in the queue.                             *)
(***************************************************************************)
\* the pipeline on a complete shapefile and a raster, with the reset command
PipelineUploads == {1, 2, 3, 6}
Next ==
    \/ \E f \in PipelineUploads : UploadFile(f)
    \/ \E f \in FileIds : ProcessStart(f)
    \/ \E t \in BagToSet(running) : ProcessFinish(t)
    \/ \E f \in FileIds : PublishStart(f)
    \/ \E f \in FileIds, r \in 0..max_retries : DelayedStart(f, r)
    \/ \E t \in BagToSet(running) : PublishStep(t)
    \/ \E f \in FileIds, force_republish \in BOOLEAN : ResetFile(f, force_republish)

Spec == Init /\ [][Next]_vars

\* the pipeline on a complete shapefile with the commands that reset,
\* migrate and synchronise it
CommandUploads == {1, 2, 3}
NextCommands ==
    \/ \E f \in CommandUploads : UploadFile(f)
    \/ \E f \in FileIds : ProcessStart(f)
    \/ \E t \in BagToSet(running) : ProcessFinish(t)
    \/ \E f \in FileIds : PublishStart(f)
    \/ \E f \in FileIds, r \in 0..max_retries : DelayedStart(f, r)
    \/ \E t \in BagToSet(running) : PublishStep(t)
    \/ \E f \in FileIds, force_republish \in BOOLEAN : ResetFile(f, force_republish)
    \/ \E f \in FileIds, proceed \in BOOLEAN : MigrateFile(f, proceed)
    \/ \E t \in BagToSet(running) : MigratePublish(t)
    \/ \E f \in FileIds : SyncLayerName(f)

SpecCommands == Init /\ [][NextCommands]_vars

\* the pipeline on a shapefile whose .shx is never uploaded, beside a
\* raster, the worker running every task it is given
MissingUploads == {1, 4, 6}
NextMissing ==
    \/ \E f \in MissingUploads : UploadFile(f)
    \/ \E f \in FileIds : ProcessStart(f)
    \/ \E t \in BagToSet(running) : ProcessFinish(t)
    \/ \E f \in FileIds : PublishStart(f)
    \/ \E f \in FileIds, r \in 0..max_retries : DelayedStart(f, r)
    \/ \E t \in BagToSet(running) : PublishStep(t)

\* the worker keeps taking the tasks of the queue and ending the
\* processings it started
WorkerStep ==
    \/ \E f \in FileIds : ProcessStart(f)
    \/ \E t \in BagToSet(running) : ProcessFinish(t)
    \/ \E f \in FileIds : PublishStart(f)
    \/ \E f \in FileIds, r \in 0..max_retries : DelayedStart(f, r)

\* the step PublishStep takes: an execution that is publishing ends
PublishEnds ==
    \E t \in BagToSet(running) :
        /\ t.kind \in {"publish", "delayed"} /\ t.pc = "publish"
        /\ running' = running (-) One(t)

\* every queued task is taken and every execution ends
TaskFairness == WF_vars(WorkerStep) /\ WF_running(PublishEnds)

FairSpecMissing == Init /\ [][NextMissing]_vars /\ TaskFairness

\* the pipeline on the shapefile, its parts and the files around them
BundleUploads == {1, 2, 3, 4, 5, 7}
NextBundle ==
    \/ \E f \in BundleUploads : UploadFile(f)
    \/ \E f \in FileIds : ProcessStart(f)
    \/ \E t \in BagToSet(running) : ProcessFinish(t)
    \/ \E f \in FileIds : PublishStart(f)
    \/ \E f \in FileIds, r \in 0..max_retries : DelayedStart(f, r)
    \/ \E t \in BagToSet(running) : PublishStep(t)

SpecBundle == Init /\ [][NextBundle]_vars

FairSpecBundle == SpecBundle /\ TaskFairness

\* the pipeline together with the map requests and the delete of a file
MapFiles == {1, 6}
NextMaps ==
    \/ \E f \in PipelineUploads : UploadFile(f)
    \/ \E f \in FileIds : ProcessStart(f)
    \/ \E t \in BagToSet(running) : ProcessFinish(t)
    \/ \E f \in FileIds : PublishStart(f)
    \/ \E f \in FileIds, r \in 0..max_retries : DelayedStart(f, r)
    \/ \E t \in BagToSet(running) : PublishStep(t)
    \/ \E f \in FileIds, force_republish \in BOOLEAN : ResetFile(f, force_republish)
    \/ \E f \in MapFiles : DeleteFile(f)
    \/ \E m \in MapIds, sel \in Selections : CreateMap(m, sel, {})
    \/ \E m \in MapIds, f \in MapFiles, o \in 0..MaxLayerOrder : AddLayer(m, f, o)
    \/ \E m \in MapIds, sel \in Selections : AddLayers(m, sel, {})
    \/ \E m \in MapIds, f \in FileIds : RemoveLayer(m, f)

SpecMaps == Init /\ [][NextMaps]_vars

\* two rasters through the pipeline and every map request on them
ComposeFiles == {6, 8}
ComposeSelections == {<<6>>, <<8>>, <<6, 8>>, <<8, 6>>}
NextCompose ==
    \/ \E f \in ComposeFiles : UploadFile(f)
    \/ \E f \in FileIds : ProcessStart(f)
    \/ \E t \in BagToSet(running) : ProcessFinish(t)
    \/ \E f \in FileIds : PublishStart(f)
    \/ \E t \in BagToSet(running) : PublishStep(t)
    \/ \E m \in MapIds, sel \in ComposeSelections : CreateMap(m, sel, {})
    \/ \E m \in MapIds, f \in ComposeFiles, o \in 0..MaxLayerOrder : AddLayer(m, f, o)
    \/ \E m \in MapIds, sel \in ComposeSelections : AddLayers(m, sel, {})
    \/ \E m \in MapIds, f \in FileIds : RemoveLayer(m, f)
    \/ \E m \in MapIds, new_order \in [ComposeFiles -> 0..MaxLayerOrder] :
           UpdateLayerOrder(m, new_order)
    \/ \E m \in MapIds, f \in ComposeFiles, visible \in BOOLEAN :
           UpdateLayerVisibility(m, f, visible)
    \/ \E m \in MapIds, f \in ComposeFiles, opacity \in Opacities :
           UpdateLayerOpacity(m, f, opacity)

SpecCompose == Init /\ [][NextCompose]_vars

\* two rasters through the pipeline, maps created from them and layers
\* appended to the maps
NextAppend ==
    \/ \E f \in ComposeFiles : UploadFile(f)
    \/ \E f \in FileIds : ProcessStart(f)
    \/ \E t \in BagToSet(running) : ProcessFinish(t)
    \/ \E f \in FileIds : PublishStart(f)
    \/ \E t \in BagToSet(running) : PublishStep(t)
    \/ \E m \in MapIds, sel \in ComposeSelections : CreateMap(m, sel, {})
    \/ \E m \in MapIds, sel \in ComposeSelections : AddLayers(m, sel, {})
    \/ \E m \in MapIds, f \in FileIds : RemoveLayer(m, f)

SpecAppend == Init /\ [][NextAppend]_vars

\* two rasters through the pipeline, the map requests that compute the
\* center, the command that recomputes it and the delete of the map, with
\* GeoServer out of reach for any of the files
NextCenter ==
    \/ \E f \in ComposeFiles : UploadFile(f)
    \/ \E f \in FileIds : ProcessStart(f)
    \/ \E t \in BagToSet(running) : ProcessFinish(t)
    \/ \E f \in FileIds : PublishStart(f)
    \/ \E t \in BagToSet(running) : PublishStep(t)
    \/ \E m \in MapIds, sel \in ComposeSelections, unreachable \in SUBSET ComposeFiles :
          CreateMap(m, sel, unreachable)
    \/ \E m \in MapIds, sel \in ComposeSelections, unreachable \in SUBSET ComposeFiles :
          AddLayers(m, sel, unreachable)
    \/ \E m \in MapIds, f \in FileIds : RemoveLayer(m, f)
    \/ \E m \in MapIds, unreachable \in SUBSET ComposeFiles :
          UpdateMapCenters(m, unreachable)
    \/ \E m \in MapIds : DeleteMap(m)

SpecCenter == Init /\ [][NextCenter]_vars

\* the map requests of several threads on the two rasters
NextRace ==
    \/ \E f \in ComposeFiles : UploadFile(f)
    \/ \E f \in FileIds : ProcessStart(f)
    \/ \E t \in BagToSet(running) : ProcessFinish(t)
    \/ \E f \in FileIds : PublishStart(f)
    \/ \E t \in BagToSet(running) : PublishStep(t)
    \/ \E m \in MapIds, sel \in ComposeSelections : CreateMap(m, sel, {})
    \/ \E m \in MapIds, f \in ComposeFiles, o \in 0..MaxLayerOrder : BeginAddLayer(m, f, o)
    \/ \E m \in MapIds, f \in ComposeFiles : BeginRemoveLayer(m, f)
    \/ \E m \in MapIds, new_order \in [ComposeFiles -> 0..MaxLayerOrder] :
           BeginUpdateLayerOrder(m, new_order)
    \/ \E r \in inflight : ComposeRead(r)
    \/ \E r \in inflight : ComposeWrite(r)

SpecRace == Init /\ [][NextRace]_vars

\* the pipeline, maps made of what it has published, and the delete of files
NextDelete ==
    \/ \E f \in PipelineUploads : UploadFile(f)
    \/ \E f \in FileIds : ProcessStart(f)
    \/ \E t \in BagToSet(running) : ProcessFinish(t)
    \/ \E f \in FileIds : PublishStart(f)
    \/ \E f \in FileIds, r \in 0..max_retries : DelayedStart(f, r)
    \/ \E t \in BagToSet(running) : PublishStep(t)
    \/ \E m \in MapIds, sel \in Selections : CreateMap(m, sel, {})
    \/ \E f \in MapFiles : BeginDeleteFile(f)
    \/ \E r \in inflight : DeletePreDelete(r)
    \/ \E r \in inflight : DeleteCascade(r)

SpecDelete == Init /\ [][NextDelete]_vars

\* the Reconciler applied to whatever GeoServer lists for the shapefile
InitReconcile ==
    /\ InitTables
    /\ wms_layers \in SUBSET ListingCandidates

NextReconcile ==
    \/ \E f \in {ReconcileFile} : VerifyCreation(f)
    \/ \E f \in {ReconcileFile} : DetectActual(f)

SpecReconcile == InitReconcile /\ [][NextReconcile]_vars

(***************************************************************************)
(* What the specification says of the pipeline, stated on the model.       *)
(***************************************************************************)
\* the last line of a processing log, a "none" entry for an empty log
LastEntry(log) == IF log = <<>> THEN Entry("none", <<>>) ELSE log[Len(log)]

\* a task of the queue is taken by this step
Taken(task) == CopiesIn(task, queue') < CopiesIn(task, queue)

\* the File rows of the bundle of f as the specification scopes it: same
\* owner, same folder, exactly the stem of f
ExactComponents(f, table) ==
    {g \in FileIds :
        /\ table[g] \notin {NotUploaded, Deleted}
        /\ Catalogue(g).owner = Catalogue(f).owner
        /\ Catalogue(g).folder = Catalogue(f).folder
        /\ Stem(Catalogue(g).name) = Stem(Catalogue(f).name)}

\* the mandatory extensions no row of ExactComponents provides
ExactMissing(f, table) ==
    SelectNotIn(required_exts, {Suffix(Catalogue(g).name) : g \in ExactComponents(f, table)})

\* the layers of the GeoServer side that an upload for f can have created
LayersOf(f, layers) == layers \cap VerifyCandidates(GenerateSystematicLayerName(f))

\* C1: in every reachable state a layer name stored on a File row is one the
\* Reconciler (_test_layer_exists) confirmed against GeoServer for that file,
\* on the raster path as on the shapefile path.
C1_LayerNameVerified ==
    \A f \in FileIds :
        (Exists(f) /\ files[f].geoserver_layer_name # NULL)
            => files[f].geoserver_layer_name \in verified[f]

\* C2: every MapLayer row references a File row that is published and has a
\* layer name.
C2_MapLayerPublished ==
    \A r \in mapLayers :
        /\ Exists(r.file)
        /\ files[r.file].gis_status = "published"
        /\ files[r.file].geoserver_layer_name # NULL

\* C3: when a publish execution completes for a file that another copy of
\* the task has published in the meantime, the file is still published
\* afterwards, its layer name names a layer GeoServer has, and GeoServer has
\* at most one layer for the file.
C3_DuplicatePublishHarmless ==
    [][\A t \in BagToSet(running) :
          (/\ t.pc = "publish"
           /\ running' = running (-) One(t)
           /\ Exists(t.f)
           /\ files[t.f].gis_status = "published")
          => (/\ files'[t.f].gis_status = "published"
              /\ files'[t.f].geoserver_layer_name \in extLayers'
              /\ Cardinality(LayersOf(t.f, extLayers')) <= 1)]_vars

\* the status a task expects to find: the process step a pending file, the
\* publish steps a processed one
ExpectedStatus(kind) == IF kind = "process" THEN "pending" ELSE "processed"

\* C4: a process, publish or delayed step that finds the file gone or in a
\* status other than the one it expects is a no-op: the File row, the
\* executions in progress and the GeoServer side stay as they are.
C4_StaleStepIsNoOp ==
    [][\A f \in FileIds, kind \in {"process", "publish", "delayed"}, r \in 0..max_retries :
          (/\ Taken(Task(kind, f, r))
           /\ (~Exists(f) \/ files[f].gis_status # ExpectedStatus(kind)))
          => (/\ files'[f] = files[f]
              /\ running' = running
              /\ UNCHANGED extVars)]_vars

\* the status changes the state machine allows a task, read as widely as it
\* can be: 'pending', 'processing' and 'processed' refine Pending and
\* Publishing, and a task may move a file from any of them to any status
PipelineEdges ==
    {"pending", "processing", "processed"}
        \X {"pending", "processing", "processed", "published", "error"}

\* C5: every change of a file's status is an edge of PipelineEdges or the
\* reset command putting the file back to pending; so no task moves a file
\* out of published or out of error.
C5_StatusEdges ==
    [][\A f \in FileIds :
          (/\ Exists(f)
           /\ files'[f] \notin {NotUploaded, Deleted}
           /\ files'[f].gis_status # files[f].gis_status)
          => \/ <<files[f].gis_status, files'[f].gis_status>> \in PipelineEdges
             \/ /\ resets'[f] = resets[f] + 1
                /\ files'[f].gis_status = "pending"]_vars

\* C6: when the delayed task runs with its retry budget used up and a
\* mandatory part of the bundle is missing, the file goes to error, the last
\* line of its log lists exactly the missing mandatory extensions, and no
\* task stays scheduled for the file.
C6_RetryExhaustion ==
    [][\A f \in FileIds :
          (/\ Taken(Task("delayed", f, max_retries))
           /\ Exists(f)
           /\ files[f].gis_status = "processed"
           /\ ExactMissing(f, files) # <<>>)
          => (/\ files'[f].gis_status = "error"
              /\ LastEntry(files'[f].processing_log)
                    = Entry("missing_components", ExactMissing(f, files))
              /\ \A kind \in {"process", "publish", "delayed"}, r \in 0..max_retries :
                    ~BagIn(Task(kind, f, r), queue'))]_vars

\* C7: a file that a failed publish attempt left in error has seen as many
\* transport failures as the retry cap; fewer failures do not put it in error.
C7_TransportRetried ==
    \A f \in FileIds :
        (/\ Exists(f)
         /\ files[f].gis_status = "error"
         /\ LastEntry(files[f].processing_log).tag
                \in {"publishing_failed", "auto_publishing_failed"}
         /\ transportFailures[f] > 0)
        => transportFailures[f] >= max_retries

\* C8: every File row zipped into the archive published for a shapefile has
\* the owner, the folder and exactly the stem of the shapefile.
C8_ExactStemParts ==
    \A f \in FileIds :
        \A g \in archives[f] :
            /\ Catalogue(g).owner = Catalogue(f).owner
            /\ Catalogue(g).folder = Catalogue(f).folder
            /\ Stem(Catalogue(g).name) = Stem(Catalogue(f).name)

\* C9: the delayed task takes a processed shapefile as ready (starts the
\* bundling) exactly when .shp, .shx and .dbf of its bundle are all present;
\* optional parts play no role.
C9_ReadyIffMandatoryParts ==
    [][\A f \in FileIds, r \in 0..max_retries :
          (/\ Taken(Task("delayed", f, r))
           /\ Exists(f)
           /\ files[f].gis_status = "processed"
           /\ EndsWith(Catalogue(f).name, shp))
          => ((running' # running) <=> (ExactMissing(f, files) = <<>>))]_vars

RankedCandidates(base, listing) ==
    {[num |-> IF n = base THEN 0 ELSE ParseInt(Drop(n, Len(base))), name |-> n] :
        n \in {Drop(layer, Len(WorkspacePrefix)) :
                  layer \in {l \in listing :
                                /\ StartsWith(l, WorkspacePrefix \o base)
                                /\ \/ l = WorkspacePrefix \o base
                                   \/ IsDigitStr(Drop(l, Len(WorkspacePrefix \o base)))}}}

\* the layers of the workspace that continue base with something that is
\* not a number
FallbackCandidates(base, listing) ==
    {Drop(l, Len(WorkspacePrefix)) :
        l \in {k \in listing :
                  /\ StartsWith(k, WorkspacePrefix \o base)
                  /\ k # WorkspacePrefix \o base
                  /\ ~IsDigitStr(Drop(k, Len(WorkspacePrefix \o base)))}}

\* C11: when the listing holds the systematic name or numbered forms of it
\* (and no other continuation of it), the Reconciler answers the candidate
\* with the highest number, the exact name counting as 0.
C11_HighestSuffixWins ==
    LET base == GenerateSystematicLayerName(ReconcileFile)
        ranked == RankedCandidates(base, wms_layers)
    IN  (/\ reconciled # NotReconciled
         /\ ranked # {}
         /\ FallbackCandidates(base, wms_layers) = {})
        => \E a \in ranked :
              /\ \A b \in ranked : b.num <= a.num
              /\ reconciled.name = a.name

\* C11 case: the listing is {base, base1, base2, base5} and the Reconciler
\* has answered.
C11_Witness ==
    LET base == GenerateSystematicLayerName(ReconcileFile)
    IN  /\ reconciled.by = "verify"
        /\ wms_layers = {WorkspacePrefix \o base,
                         WorkspacePrefix \o NumberedName(base, 1),
                         WorkspacePrefix \o NumberedName(base, 2),
                         WorkspacePrefix \o NumberedName(base, 5)}
        /\ reconciled.name = base

\* C12: a layer that continues the systematic name with something that is
\* not a number is answered only when the listing holds neither the exact
\* name nor a numbered form of it.
C12_FallbackOnlyWithoutRanked ==
    LET base == GenerateSystematicLayerName(ReconcileFile)
    IN  (/\ reconciled # NotReconciled
         /\ reconciled.name \in FallbackCandidates(base, wms_layers))
        => RankedCandidates(base, wms_layers) = {}

\* C12 case: the listing holds the exact name and a continuation by text,
\* and the detection has answered the continuation.
C12_Witness ==
    LET base == GenerateSystematicLayerName(ReconcileFile)
    IN  /\ reconciled.by = "detect"
        /\ WorkspacePrefix \o base \in wms_layers
        /\ reconciled.name = base \o <<"_", "o", "r", "i", "g">>

\* the stores of the GeoServer side that hold uploads of f
StoresOf(f, stores) ==
    {st \in stores : StartsWith(st, GenerateSystematicLayerName(f))}

AscendingDefinitions(rows, table) ==
    {g \in [published : [1..Cardinality(rows) -> {FullLayerName(table[r.file]) : r \in rows}],
            style : [1..Cardinality(rows) -> {<<>>}]] :
        \E s \in [1..Cardinality(rows) -> rows] :
            /\ \A i, j \in DOMAIN s : i # j => s[i] # s[j]
            /\ \A i, j \in DOMAIN s : i < j => s[i].layer_order <= s[j].layer_order
            /\ \A i \in DOMAIN s : g.published[i] = FullLayerName(table[s[i].file])}

\* C15 as stated: whenever a request gives a map a new layer group
\* definition, its member list is all the MapLayer rows of the map in
\* ascending layer_order and the style list has the same length.
C15_FullReplaceAllRows ==
    [][\A m \in MapIds :
          (layerGroups'[m] # layerGroups[m] /\ layerGroups'[m] # NoGroup)
          => layerGroups'[m] \in
                AscendingDefinitions({r \in mapLayers' : r.map = m}, files')]_vars

\* C15 amended: whenever a request gives a map a new layer group
\* definition, its member list is the visible MapLayer rows of the map whose
\* file has a layer name, in ascending layer_order, and the style list has
\* the same length.
C15_FullReplaceVisibleRows ==
    [][\A m \in MapIds :
          (layerGroups'[m] # layerGroups[m] /\ layerGroups'[m] # NoGroup)
          => layerGroups'[m] \in
                AscendingDefinitions(
                    {r \in mapLayers' : /\ r.map = m
                                        /\ r.is_visible
                                        /\ files'[r.file].geoserver_layer_name # NULL},
                    files')]_vars

\* C15 case: both rasters are published and on the map in the orders 0 and
\* 1, the second one is hidden, and the layer group lists the first alone.
C15_Witness ==
    /\ MapLayerRow(1, 6, 0) \in mapLayers
    /\ [MapLayerRow(1, 8, 1) EXCEPT !.is_visible = FALSE] \in mapLayers
    /\ files[8].gis_status = "published"
    /\ layerGroups[1].published = <<FullLayerName(files[6])>>

\* C16: no request that changes a MapLayer row of a map (add, remove,
\* reorder, visibility, opacity) ends without having called
\* update_layer_group for that map.
C16_EveryMutationComposes == notComposed = {}

\* C16 case: a layer of the map was hidden by a request and the layer group
\* still lists it.
C16_Witness ==
    /\ 1 \in notComposed
    /\ [MapLayerRow(1, 6, 0) EXCEPT !.is_visible = FALSE] \in mapLayers
    /\ layerGroups[1].published = <<FullLayerName(files[6])>>

\* what the layer group of m is when it is the projection of the rows
Projection(m, layerRows, table) ==
    IF GroupRows(m, layerRows, table) = {} THEN {NoGroup}
    ELSE GroupDefinitions(m, layerRows, table)

\* C17: when an update_layer_group call is the last to write the layer
\* group of a map, no request of the map being in progress after it, the
\* layer group is the projection of the MapLayer rows the map has at that
\* moment, or at least the call has read exactly these rows: no definition
\* built from an older list of rows is the one that stays.
C17_LastWriteIsCurrent ==
    [][\A r \in inflight :
          (/\ r.pc = "write"
           /\ r \notin inflight'
           /\ ~\E q \in inflight' : q.m = r.m)
          => \/ r.snapshot = {x \in mapLayers' : x.map = r.m}
             \/ layerGroups'[r.m] \in Projection(r.m, mapLayers', files')]_vars

\* C17 case: no request is in progress, both rasters are published, the
\* map has one of them and the layer group lists both.
C17_Witness ==
    /\ inflight = {}
    /\ files[6].gis_status = "published" /\ files[8].gis_status = "published"
    /\ Cardinality(RowsOf(1)) = 1
    /\ layerGroups[1] # NoGroup
    /\ Len(layerGroups[1].published) = 2

\* C18: when the delete of a file reaches the Cleanup of its external layer
\* and store, no MapLayer row references the file any more and no layer
\* group lists its layer: the rows go first, then the layer groups are
\* updated, then the Cleanup runs.
C18_RowsThenGroupsThenCleanup ==
    [][\A r \in inflight' \ inflight :
          (r.op = "delete" /\ r.pc = "pre_delete" /\ r.cleanup)
          => (/\ \A x \in mapLayers : x.file # r.f
              /\ \A m \in MapIds :
                    \A i \in DOMAIN layerGroups[m].published :
                        layerGroups[m].published[i] # FullLayerName(files[r.f]))]_vars

\* C18 case: the delete of the raster has removed its layer and store from
\* GeoServer while the MapLayer row and the layer group still name it.
C18_Witness ==
    /\ \E r \in inflight : r.op = "delete" /\ r.f = 6 /\ r.cleanup /\ r.pc = "pre_delete"
    /\ StoresOf(6, extStores) = {}
    /\ \E x \in mapLayers : x.file = 6
    /\ layerGroups[1].published = <<FullLayerName(files[6])>>

\* C19: the delete of a file for which GeoServer holds a store calls the
\* Cleanup, whatever the status of the file and whether or not a layer name
\* was ever stored on it.
C19_CleanupAlwaysAttempted ==
    [][\A r \in inflight' \ inflight :
          (r.op = "delete" /\ r.pc = "pre_delete" /\ StoresOf(r.f, extStores) # {})
          => r.cleanup]_vars

\* C19 case: the shapefile is in error without a layer name, GeoServer has
\* its store, and the delete of the file is past the point of the Cleanup
\* without having called it.
C19_Witness ==
    /\ \E r \in inflight : r.op = "delete" /\ r.f = 1 /\ ~r.cleanup
    /\ files[1].gis_status = "error"
    /\ files[1].geoserver_layer_name = NULL
    /\ StoresOf(1, extStores) # {}

\* C20: a delete request never ends without having removed the File row,
\* also when the Cleanup has left the layer or the store of the file on
\* GeoServer.
C20_CleanupNeverBlocks ==
    [][\A r \in inflight :
          (r.op = "delete" /\ r.pc = "cascade" /\ r \notin inflight')
          => files'[r.f] = Deleted]_vars

\* C20 case: the raster was published, its delete has ended with the row
\* removed, and GeoServer still has its store and layer (the DELETE calls
\* were not served).
C20_Witness ==
    /\ files[6] = Deleted
    /\ ~\E r \in inflight : r.f = 6
    /\ StoresOf(6, extStores) # {}
    /\ LayersOf(6, extLayers) # {}

\* a is a prefix of b
IsPrefix(a, b) == Len(a) <= Len(b) /\ SubSeq(b, 1, Len(a)) = a

\* C23: the processing log of a file is append-only: across every step that
\* leaves the File row in place, the log before the step is a prefix of the
\* log after it; no step overwrites or truncates earlier lines.
C23_LogAppendOnly ==
    [][\A f \in FileIds :
          (Exists(f) /\ files'[f] \notin {NotUploaded, Deleted})
          => IsPrefix(files[f].processing_log, files'[f].processing_log)]_vars

\* C23 case: the shapefile was processed and the line the task wrote at its
\* start is no longer in the log.
C23_Witness ==
    /\ files[1].gis_status = "processed"
    /\ files[1].processing_log # <<>>
    /\ ~\E i \in DOMAIN files[1].processing_log :
           files[1].processing_log[i] = Entry("starting", <<>>)

\* C22: a publish execution that completes for a file whose row was deleted
\* while it was in progress aborts: the row is still absent afterwards (the
\* save of the task does not bring it back) and the step leaves no store and
\* no layer on GeoServer.
C22_DeletedFileStaysDeleted ==
    [][\A t \in BagToSet(running) :
          (/\ t.kind \in {"publish", "delayed"}
           /\ running' = running (-) One(t)
           /\ files[t.f] = Deleted)
          => (/\ files'[t.f] = Deleted
              /\ extStores' = extStores
              /\ extLayers' = extLayers)]_vars

\* C22 case: a publish execution of the raster has completed after the row
\* was deleted, and the File table has a row for the raster again.
C22_Witness ==
    /\ \E g \in generated[6] : g.absent
    /\ Exists(6)
    /\ ~\E r \in inflight : r.f = 6

\* C28: the rows add_layers_to_map appends to a map get layer_order values
\* above the layer_order of every row the map already has, also when the
\* highest order so far is 0; so no two rows of a map share an order.
C28_AppendedAboveExisting ==
    \A m \in MapIds :
        \A a, b \in RowsOf(m) : a # b => a.layer_order # b.layer_order

\* C28 case: the map was created with one raster (order 0) and the other
\* raster was appended to it.
C28_Witness ==
    /\ 1 \in maps
    /\ {r.file : r \in RowsOf(1)} = ComposeFiles
    /\ \E r \in RowsOf(1) : r.layer_order = 0

\* C27: the layer group of a map is the projection of its MapLayer rows:
\* after any sequence of completed create, add, remove and reorder requests
\* (no visibility or opacity request among them) the group exists exactly
\* when the map has a layer and lists the layers of the rows in their order;
\* so a layer added to a map that had become empty brings the group back.
C27_GroupIsProjection ==
    \A m \in maps :
        m \notin notComposed => layerGroups[m] \in Projection(m, mapLayers, files)

\* C27 case: the map had lost its last layer and with it its layer group,
\* a layer was added again, and GeoServer has no layer group for the map.
C27_Witness ==
    /\ 1 \in maps
    /\ 1 \notin notComposed
    /\ \E r \in RowsOf(1) : r.is_visible /\ files[r.file].geoserver_layer_name # NULL
    /\ layerGroups[1] = NoGroup

\* C26: create_layer_group sends its create call only for a map that has a
\* MapLayer row referencing a published file; for a map without such a row
\* it fails and GeoServer gets no layer group.
C26_CreateNeedsPublishedLayer ==
    [][\A m \in MapIds :
          (m \notin maps /\ layerGroups'[m] # NoGroup)
          => \E r \in mapLayers' :
                 r.map = m /\ files[r.file].gis_status = "published"]_vars

\* C26 case: the map was created from the shapefile alone, the shapefile has
\* a layer name and is not published, and GeoServer has the layer group.
C26_Witness ==
    /\ 1 \in maps
    /\ {r.file : r \in RowsOf(1)} = {1}
    /\ files[1].gis_status \notin {"published", "Deleted"}
    /\ layerGroups[1] # NoGroup

\* C29: in every reachable state of the pipeline, with its reset, migrate
\* and synchronise commands, a published file has a layer name and a
\* datastore name.
C29_PublishedHasNames ==
    \A f \in FileIds :
        (Exists(f) /\ files[f].gis_status = "published")
        => (/\ files[f].geoserver_layer_name # NULL
            /\ files[f].geoserver_datastore_name # NULL)

\* C29 case: the shapefile is published under an auto-numbered layer name
\* after a command has reset it and it was published again.
C29_Witness ==
    /\ files[1].gis_status = "published"
    /\ resets[1] > 0
    /\ \E g \in generated[1] : g.resets > 0
    /\ files[1].geoserver_layer_name = NumberedName(GenerateSystematicLayerName(1), 1)

\* the runs of the delayed task scheduled for f
DelayedTasks(f) == {t \in BagToSet(queue) : t.kind = "delayed" /\ t.f = f}

\* C30: with a mandatory part never uploaded, the delayed task of a
\* shapefile ends: at most one run is scheduled at a time, its retry count
\* never exceeds max_retries (so the bundle check runs at most
\* max_retries + 1 times), and a scheduled run leads to the file being in
\* error with no run of the task scheduled any more.
C30_DelayedTaskTerminates ==
    /\ [](\A f \in FileIds :
            /\ Cardinality(DelayedTasks(f)) <= 1
            /\ \A t \in DelayedTasks(f) : t.retries <= max_retries /\ CopiesIn(t, queue) = 1)
    /\ \A f \in FileIds :
          (DelayedTasks(f) # {})
              ~> (files[f].gis_status = "error" /\ DelayedTasks(f) = {})

\* C30 case: the shapefile without its .shx is in error after the run with
\* retry count max_retries, and nothing is scheduled for it.
C30_Witness ==
    /\ files[1].gis_status = "error"
    /\ LastEntry(files[1].processing_log).tag = "missing_components"
    /\ ~Exists(2)
    /\ DelayedTasks(1) = {}

\* C21: delete_layer_group reports success when the layer group existed and
\* GeoServer removed it (200) and when GeoServer answers not found (404);
\* two calls in a row that GeoServer answers, as Map.delete makes them,
\* succeed both and leave no layer group.
C21_DeleteIdempotent ==
    \A m \in MapIds :
        LET calls == groupDeletes[m]
        IN  /\ \A i \in DOMAIN calls :
                  calls[i].status \in {200, 404}
                      => (calls[i].success /\ calls[i].group = NoGroup)
            /\ \A i \in DOMAIN calls :
                  (i > 1 /\ calls[i - 1].status = 200 /\ calls[i].status # 500)
                      => /\ calls[i - 1].success
                         /\ calls[i].status = 404
                         /\ calls[i].success
                         /\ calls[i].group = NoGroup

\* C21 case: the delete of a map with a layer group called
\* delete_layer_group twice in a row: the first call removed the group, the
\* second was answered not found, both returned success and the group is
\* gone.
C21_Witness ==
    /\ 1 \notin maps
    /\ Len(groupDeletes[1]) >= 2
    /\ groupDeletes[1][1].existed /\ groupDeletes[1][1].status = 200
    /\ groupDeletes[1][1].success
    /\ ~groupDeletes[1][2].existed /\ groupDeletes[1][2].status = 404
    /\ groupDeletes[1][2].success
    /\ layerGroups[1] = NoGroup

\* box b is the union of the extents of the files fs: it contains each of
\* them and each of its sides is a side of one of them
IsUnionOf(b, fs) ==
    /\ b # Unset
    /\ \A f \in fs : /\ b.min_lat <= Extent(f).min_lat /\ Extent(f).max_lat <= b.max_lat
                     /\ b.min_lng <= Extent(f).min_lng /\ Extent(f).max_lng <= b.max_lng
    /\ \E f \in fs : b.min_lat = Extent(f).min_lat
    /\ \E f \in fs : b.max_lat = Extent(f).max_lat
    /\ \E f \in fs : b.min_lng = Extent(f).min_lng
    /\ \E f \in fs : b.max_lng = Extent(f).max_lng

\* C25: after calculate_and_update_center the bounding box of the map is the
\* union of the extents of exactly the members whose extent resolved, and
\* when none resolved the map has the default center, the zoom level 4 and
\* no bounding box.
C25_CenterFromResolved ==
    \A m \in maps :
        centerCalls[m].made =>
            IF centerCalls[m].resolved # {}
            THEN IsUnionOf(mapGeometry[m].bbox, centerCalls[m].resolved)
            ELSE /\ mapGeometry[m].center = DefaultCenter
                 /\ mapGeometry[m].zoom_level = DefaultZoom
                 /\ mapGeometry[m].bbox = Unset

\* C25 case: a map of two layers whose center was computed while GeoServer
\* answered for one member only; the bounding box is the extent of that one.
C25_Witness ==
    /\ 1 \in maps
    /\ centerCalls[1].made
    /\ centerCalls[1].members = {6, 8}
    /\ centerCalls[1].resolved = {8}
    /\ mapGeometry[1].bbox = Extent(8)

\* the shapefile f is spatial, its .shx and .dbf are uploaded under its
\* owner, folder and stem, and the pipeline has not given it up
BundleInPipeline(f) ==
    /\ Exists(f)
    /\ Suffix(Catalogue(f).name) = shp
    /\ files[f].is_spatial
    /\ ExactMissing(f, files) = <<>>
    /\ files[f].gis_status \in {"pending", "processing", "processed"}

====
